---- MODULE Spec2Model ----
(***************************************************************************)
(* Model of the Xandeum dashboard's reliability scoring engine.            *)
(*                                                                         *)
(*   - calculateRealMetrics, getBadgeStatus (page v9.1)                    *)
(*   - calculateHealthScore and the per-node merge loop of initSystem      *)
(*   - initEngine, the polling cycle that publishes nodes, metrics,        *)
(*     versionData, insights and logs, and the riskStats memo over nodes   *)
(*                                                                         *)
(* JavaScript numbers are doubles.  The scores are modelled with exact     *)
(* rationals [n, d] in lowest terms (d > 0); within the bounds used here   *)
(* (leaderSlots below 12) the double results and the exact results have    *)
(* the same floor.                                                         *)
(***************************************************************************)
EXTENDS Integers, Sequences, FiniteSets, TLC

\* ------------------------------------------------------------------ bounds
MaxSlot == 8          \* current slot heights 0..MaxSlot
MaxVote == 9          \* lastVote 0..MaxVote (one past MaxSlot: a vote ahead of the slot)
MaxLeader == 4        \* leaderSlots 0..MaxLeader
MaxProduced == 5      \* blocksProduced 0..MaxProduced (above leaderSlots: malformed)
FarSlot == 250        \* a slot height far ahead of every vote (lag above 200)

\* ------------------------------------------------------------ arithmetic
Max(a, b) == IF a >= b THEN a ELSE b
Min(a, b) == IF a <= b THEN a ELSE b
Abs(a) == IF a < 0 THEN 0 - a ELSE a

RECURSIVE GCD(_, _)
GCD(a, b) == IF b = 0 THEN a ELSE GCD(b, a % b)

\* the rational n/d in lowest terms, d > 0
Rat(n, d) == LET g == GCD(Abs(n), d) IN [n |-> n \div g, d |-> d \div g]
RInt(i) == [n |-> i, d |-> 1]
RAdd(a, b) == Rat(a.n * b.d + b.n * a.d, a.d * b.d)
RSub(a, b) == Rat(a.n * b.d - b.n * a.d, a.d * b.d)
RMul(a, b) == Rat(a.n * b.n, a.d * b.d)
RLt(a, b) == a.n * b.d < b.n * a.d
RLe(a, b) == a.n * b.d <= b.n * a.d
RMin(a, b) == IF RLe(a, b) THEN a ELSE b
RMax(a, b) == IF RLe(b, a) THEN a ELSE b
\* Math.floor
RFloor(a) == a.n \div a.d

\* --------------------------------------------------------------- inputs
\* An optional value is a sequence of length 0 (absent) or 1 (present).
Votes == {<<>>} \cup {<<[lastVote |-> v]>> : v \in 0..MaxVote}
Productions ==
    {<<>>} \cup {<<[leaderSlots |-> l, blocksProduced |-> p]>> :
                    l \in 0..MaxLeader, p \in 0..MaxProduced}
Gossips == {<<>>, <<"10.0.0.1:8001">>}
Samples == [vote : Votes, production : Productions, gossip : Gossips]
Slots == (0..MaxSlot) \cup {FarSlot}

\* ------------------------------------------------- page v9.1: pure functions
XriMax == 100

\* getBadgeStatus(xri)
getBadgeStatus_SilverAt80(xri) ==
    IF xri >= 90 THEN "GOLD"
    ELSE IF xri >= 80 THEN "SILVER"
    ELSE IF xri >= 50 THEN "BRONZE"
    ELSE "NONE"

getBadgeStatus(xri) ==
    IF xri >= 90 THEN "GOLD"
    ELSE IF xri >= 75 THEN "SILVER"
    ELSE IF xri >= 50 THEN "BRONZE"
    ELSE "NONE"

\* calculateRealMetrics: let lag
lag_NoMax(node, currentSlot) ==
    IF node.vote # <<>> /\ currentSlot > 0
    THEN currentSlot - node.vote[1].lastVote
    ELSE 0

lag(node, currentSlot) ==
    IF node.vote # <<>> /\ currentSlot > 0
    THEN Max(0, currentSlot - node.vote[1].lastVote)
    ELSE 0

\* calculateRealMetrics: let leader, let produced
leader(node) ==
    IF node.production # <<>> THEN node.production[1].leaderSlots ELSE 0

produced(node) ==
    IF node.production # <<>> THEN node.production[1].blocksProduced ELSE 0

\* calculateRealMetrics: let skip = ((leader - produced) / leader) * 100
skip_Produced(node) ==
    IF node.production # <<>> /\ leader(node) > 0
    THEN RMul(Rat(produced(node), leader(node)), RInt(100))
    ELSE RInt(0)

skip(node) ==
    IF node.production # <<>> /\ leader(node) > 0
    THEN RMul(Rat(leader(node) - produced(node), leader(node)), RInt(100))
    ELSE RInt(0)

\* calculateRealMetrics: const efficiency
efficiency_LagLe5(node, l) ==
    IF leader(node) > 0
    THEN RMul(Rat(produced(node), leader(node)), RInt(100))
    ELSE IF l <= 5 THEN RInt(100) ELSE RInt(50)

efficiency(node, l) ==
    IF leader(node) > 0
    THEN RMul(Rat(produced(node), leader(node)), RInt(100))
    ELSE IF l < 5 THEN RInt(100) ELSE RInt(50)

\* calculateRealMetrics: xri before the final floor and clamp
xriRaw_AddLag(node, s, l) ==
    LET x1 == RSub(RInt(100), RMul(s, Rat(3, 2)))
        x2 == RAdd(x1, RMul(RInt(l), Rat(1, 2)))
    IN  IF node.gossip = <<>> THEN RSub(x2, RInt(20)) ELSE x2

xriRaw(node, s, l) ==
    LET x1 == RSub(RInt(100), RMul(s, Rat(3, 2)))
        x2 == RSub(x1, RMul(RInt(l), Rat(1, 2)))
    IN  IF node.gossip = <<>> THEN RSub(x2, RInt(20)) ELSE x2

\* calculateRealMetrics: xri = Math.max(0, Math.min(100, Math.floor(xri)))
xriClamp_NoMax(x) == Min(XriMax, RFloor(x))
xriClamp_NoMin(x) == Max(0, RFloor(x))

xriClamp(x) == Max(0, Min(XriMax, RFloor(x)))

calculateRealMetrics(node, currentSlot) ==
    LET l == lag(node, currentSlot)
        s == skip(node)
    IN  [lag |-> l,
         skip |-> s,
         efficiency |-> efficiency(node, l),
         xri |-> xriClamp(xriRaw(node, s, l))]


\* ------------------------------------- dashboard v2: merge loop of initSystem
\* calculateHealthScore(node, isVote)
calculateHealthScore(node, isVote) ==
    LET s0 == RInt(100)
        s1 == IF node.slotLag > 15
              THEN RSub(s0, RMin(RInt(40), RMul(RInt(node.slotLag - 15), Rat(4, 5))))
              ELSE s0
        s2 == IF RLt(RInt(5), node.skipRateNum)
              THEN RSub(s1, RMul(node.skipRateNum, RInt(2)))
              ELSE s1
        s3 == IF ~isVote THEN RSub(s2, RInt(20)) ELSE s2
        s4 == IF node.gossip = <<>> THEN RSub(s3, RInt(50)) ELSE s3
    IN  Max(0, Min(100, RFloor(s4)))

\* initSystem merge loop: let slotLag
slotLag(voteData, currentSlotHeight) ==
    IF voteData # <<>> /\ currentSlotHeight > 0
    THEN Max(0, currentSlotHeight - voteData[1].lastVote)
    ELSE 0

\* initSystem merge loop: let skipRateVal (with the lag-based estimate)
skipRateVal(voteData, prodData, currentSlotHeight) ==
    IF prodData # <<>> /\ prodData[1].leaderSlots > 0
    THEN RMul(Rat(prodData[1].leaderSlots - prodData[1].blocksProduced,
                  prodData[1].leaderSlots), RInt(100))
    ELSE IF voteData # <<>>
    THEN RMin(RInt(100), RMax(RInt(0), Rat(slotLag(voteData, currentSlotHeight), 50)))
    ELSE RInt(0)

\* initSystem merge loop: the scored fields of one entry of baseNodes
baseNodes(node, currentSlotHeight) ==
    LET sl == slotLag(node.vote, currentSlotHeight)
        sk == skipRateVal(node.vote, node.production, currentSlotHeight)
    IN  [slotLag |-> sl,
         skipRateNum |-> sk,
         isValidator |-> node.vote # <<>>,
         healthScore |-> calculateHealthScore(
             [slotLag |-> sl, skipRateNum |-> sk, gossip |-> node.gossip],
             node.vote # <<>>)]

\* ------------------------------------ ledger dashboard: merge loop of initSystem
\* values Math.random() can return, all in [0, 1)
RandomDraws == {Rat(0, 1), Rat(1, 2), Rat(99, 100)}

\* calculateHealthScore(node, isVote) of the ledger dashboard
calculateHealthScoreV3(node, isVote) ==
    LET s0 == RInt(100)
        s1 == IF node.slotLag # 0 /\ node.slotLag > 20
              THEN RSub(s0, RMin(RInt(40), RMul(RInt(node.slotLag - 20), Rat(1, 2))))
              ELSE s0
        s2 == IF node.skipRateNum.n # 0 /\ RLt(RInt(0), node.skipRateNum)
              THEN RSub(s1, RMul(node.skipRateNum, RInt(3)))
              ELSE s1
        s3 == IF ~isVote THEN RSub(s2, RInt(10)) ELSE s2
        s4 == IF node.gossip = <<>> THEN RSub(s3, RInt(50)) ELSE s3
    IN  Max(0, Min(100, RFloor(s4)))

\* initSystem merge loop: let skipRateVal; random is what Math.random() returns
skipRateValV3(voteData, prodData, currentSlotHeight, random) ==
    IF prodData # <<>> /\ prodData[1].leaderSlots > 0
    THEN RMul(Rat(prodData[1].leaderSlots - prodData[1].blocksProduced,
                  prodData[1].leaderSlots), RInt(100))
    ELSE IF voteData # <<>>
    THEN RMin(RInt(100),
              RMax(RInt(0),
                   RAdd(Rat(slotLag(voteData, currentSlotHeight), 100), random)))
    ELSE RInt(0)

\* initSystem merge loop: the scored fields of one entry of baseNodes
baseNodesV3(node, currentSlotHeight, random) ==
    LET sl == slotLag(node.vote, currentSlotHeight)
        sk == skipRateValV3(node.vote, node.production, currentSlotHeight, random)
    IN  [slotLag |-> sl,
         skipRateNum |-> sk,
         isValidator |-> node.vote # <<>>,
         healthScore |-> calculateHealthScoreV3(
             [slotLag |-> sl, skipRateNum |-> sk, gossip |-> node.gossip],
             node.vote # <<>>)]


\* ------------------------------------------------- page v9.1: polling engine
MaxNodes == 2         \* cluster nodes per fetched batch
MaxTicks == 1         \* firings of the 400 ms slot interval
EngineSlot == 200     \* absoluteSlot reported by getEpochInfo
StaleLag == 120       \* slots a stale vote is behind absoluteSlot
MaxLogs == 50

MaxVersions == 7      \* distinct version keys in a cluster, 'Unknown' among them
MaxPerVersion == 2    \* cluster nodes that report one version
MaxCluster == 8       \* cluster nodes in a cluster of many versions
MaxValidators == 4    \* vote accounts fetched by initSystem
MaxPubkeys == 32      \* identities the chain can report

\* node identities: opaque, pairwise distinct public keys
Pubkeys == [i \in 1..MaxPubkeys |-> <<"pubkey", i>>]

\* what the chain reports about one cluster node: its getClusterNodes entry
\* (version as its space-separated words, gossip) and its getVoteAccounts and
\* getBlockProduction entries, if any
EngineVotes ==
    {<<>>,
     <<[lastVote |-> EngineSlot, activatedStake |-> 2000, commission |-> 5,
        delinquent |-> FALSE]>>,
     <<[lastVote |-> EngineSlot - StaleLag, activatedStake |-> 1000,
        commission |-> 10, delinquent |-> TRUE]>>}
EngineProductions ==
    {<<>>, <<[leaderSlots |-> 4, blocksProduced |-> 3]>>}
EngineVersions == {<<"2.0.1", "src">>}
Profiles ==
    [version : EngineVersions, gossip : Gossips, vote : EngineVotes,
     production : EngineProductions]

\* SelectSeq with an index-free predicate over a sequence built per node
RECURSIVE FlatMap(_, _)
FlatMap(f, n) == IF n = 0 THEN <<>> ELSE FlatMap(f, n - 1) \o f[n]

\* the RPC responses of one batch built from the per-node profiles
\* (orphan: vote accounts of validators that getClusterNodes does not list)
Batch(prof, epochInfo, perfSamples, productionOk, orphan) ==
    LET n == Len(prof)
        voteOf(i, d) ==
            IF prof[i].vote # <<>> /\ prof[i].vote[1].delinquent = d
            THEN <<[nodePubkey |-> Pubkeys[i],
                    lastVote |-> prof[i].vote[1].lastVote,
                    activatedStake |-> prof[i].vote[1].activatedStake,
                    commission |-> prof[i].vote[1].commission]>>
            ELSE <<>>
    IN  [cluster |-> [i \in 1..n |->
                        [pubkey |-> Pubkeys[i], version |-> prof[i].version,
                         gossip |-> prof[i].gossip]],
         votes |-> [current |-> FlatMap([i \in 1..n |-> voteOf(i, FALSE)], n),
                    delinquent |-> FlatMap([i \in 1..n |-> voteOf(i, TRUE)], n)
                                   \o orphan],
         production |-> IF productionOk
                        THEN <<[byIdentity |->
                                  [i \in 1..n |-> prof[i].production]]>>
                        ELSE <<>>,
         epochInfo |-> epochInfo,
         perfSamples |-> perfSamples,
         rejected |-> "none"]

\* the outcome of a Promise.all that rejects: call r has failed
Rejection(r) ==
    [cluster |-> <<>>,
     votes |-> [current |-> <<>>, delinquent |-> <<>>],
     production |-> <<>>,
     epochInfo |-> <<>>,
     perfSamples |-> <<>>,
     rejected |-> r]

\* the calls whose failure rejects the Promise.all (the others have a .catch)
RejectingCalls == {"getClusterNodes", "getVoteAccounts"}

EpochInfos == {<<>>, <<[epoch |-> 7, absoluteSlot |-> EngineSlot]>>}
PerfSamples ==
    {<<>>,
     <<[numTransactions |-> 1999, samplePeriodSecs |-> 2]>>,
     <<[numTransactions |-> 2000, samplePeriodSecs |-> 2]>>}

Batches ==
    {Batch(prof, e, p, ok, <<>>) :
        prof \in UNION {[1..n -> Profiles] : n \in 0..MaxNodes},
        e \in EpochInfos, p \in PerfSamples, ok \in BOOLEAN}

\* vote accounts that match no cluster node one to one: the account of a
\* validator that getClusterNodes does not list, and a second account of the
\* first cluster node
OrphanVotes ==
    {<<>>,
     <<[nodePubkey |-> Pubkeys[MaxPubkeys], lastVote |-> EngineSlot,
        activatedStake |-> 500, commission |-> 0]>>,
     <<[nodePubkey |-> Pubkeys[1], lastVote |-> EngineSlot,
        activatedStake |-> 300, commission |-> 0]>>}

StakeBatches ==
    {Batch(prof, <<[epoch |-> 7, absoluteSlot |-> EngineSlot]>>, <<>>, TRUE, o) :
        prof \in UNION {[1..n -> Profiles] : n \in 0..MaxNodes},
        o \in OrphanVotes}

\* version strings as their space-separated tokens; the first entry is the
\* missing version
VersionNames ==
    <<<<>>, <<"1.17.31", "src">>, <<"1.18.23">>, <<"1.18.26", "src">>, <<"2.0.1">>,
      <<"2.0.14", "src">>, <<"2.0.15">>, <<"2.1.0", "src">>, <<"2.1.5">>>>

\* the cluster in which counts[v] nodes report version VersionNames[v]
RECURSIVE VersionCluster(_, _)
VersionCluster(counts, v) ==
    IF v = 0 THEN <<>>
    ELSE LET before == VersionCluster(counts, v - 1)
         IN  before \o [i \in 1..counts[v] |->
                          [pubkey |-> Pubkeys[Len(before) + i],
                           version |-> VersionNames[v],
                           gossip |-> <<"10.0.0.1:8001">>]]

VersionBatches ==
    {[cluster |-> VersionCluster(counts, MaxVersions),
      votes |-> [current |-> <<>>, delinquent |-> <<>>],
      production |-> <<>>,
      epochInfo |-> <<[epoch |-> 7, absoluteSlot |-> EngineSlot]>>,
      perfSamples |-> <<>>,
      rejected |-> "none"] :
        counts \in {c \in [1..MaxVersions -> 0..MaxPerVersion] :
                      Len(VersionCluster(c, MaxVersions)) <= MaxCluster}}

\* index of a pubkey in Pubkeys
PubkeyIndex(pk) == CHOOSE i \in 1..MaxPubkeys : Pubkeys[i] = pk

\* new Map(votes.current.concat(votes.delinquent).map(v => [v.nodePubkey, v])).get(pk)
voteMap(votes, pk) ==
    LET all == votes.current \o votes.delinquent
        hits == {i \in 1..Len(all) : all[i].nodePubkey = pk}
    IN  IF hits = {} THEN <<>>
        ELSE <<all[CHOOSE i \in hits : \A j \in hits : j <= i]>>

\* production?.value.byIdentity[rawNode.pubkey] || null
prod(production, pk) ==
    IF production = <<>> THEN <<>>
    ELSE LET by == production[1].byIdentity
         IN  IF PubkeyIndex(pk) \in DOMAIN by THEN by[PubkeyIndex(pk)] ELSE <<>>

\* epochInfo?.absoluteSlot || 0
absoluteSlot(epochInfo) == IF epochInfo = <<>> THEN 0 ELSE epochInfo[1].absoluteSlot

\* realTPS
realTPS(perfSamples) ==
    IF perfSamples # <<>> /\ perfSamples[1].numTransactions # 0
    THEN Rat(perfSamples[1].numTransactions, perfSamples[1].samplePeriodSecs)
    ELSE RInt(0)

\* rawNode.version ? rawNode.version.split(' ')[0] : 'Unknown'
ver(rawNode) == IF rawNode.version = <<>> THEN "Unknown" ELSE rawNode.version[1]

\* one entry of processedNodes
processedNode_BadgeFromEfficiency(rawNode, votes, production, epochInfo) ==
    LET vote == voteMap(votes, rawNode.pubkey)
        m == calculateRealMetrics(
                 [vote |-> vote, production |-> prod(production, rawNode.pubkey),
                  gossip |-> rawNode.gossip],
                 absoluteSlot(epochInfo))
    IN  [pubkey |-> rawNode.pubkey,
         version |-> rawNode.version,
         gossip |-> rawNode.gossip,
         city |-> <<>>, country |-> <<>>, isp |-> <<>>,
         stake |-> IF vote # <<>> THEN vote[1].activatedStake ELSE 0,
         voteLag |-> m.lag,
         skipRate |-> m.skip,
         efficiency |-> m.efficiency,
         xriScore |-> m.xri,
         commission |-> IF vote # <<>> THEN vote[1].commission ELSE 0,
         badge |-> getBadgeStatus(RFloor(m.efficiency))]

processedNode(rawNode, votes, production, epochInfo) ==
    LET vote == voteMap(votes, rawNode.pubkey)
        m == calculateRealMetrics(
                 [vote |-> vote, production |-> prod(production, rawNode.pubkey),
                  gossip |-> rawNode.gossip],
                 absoluteSlot(epochInfo))
    IN  [pubkey |-> rawNode.pubkey,
         version |-> rawNode.version,
         gossip |-> rawNode.gossip,
         city |-> <<>>, country |-> <<>>, isp |-> <<>>,
         stake |-> IF vote # <<>> THEN vote[1].activatedStake ELSE 0,
         voteLag |-> m.lag,
         skipRate |-> m.skip,
         efficiency |-> m.efficiency,
         xriScore |-> m.xri,
         commission |-> IF vote # <<>> THEN vote[1].commission ELSE 0,
         badge |-> getBadgeStatus(m.xri)]

processedNodes(b) ==
    [i \in 1..Len(b.cluster) |->
        processedNode(b.cluster[i], b.votes, b.production, b.epochInfo)]

\* totalStake accumulated over the cluster nodes that have a vote account
RECURSIVE SumStake(_, _)
SumStake(ns, n) == IF n = 0 THEN 0 ELSE SumStake(ns, n - 1) + ns[n].stake

\* sum of activatedStake over the accounts of accs with an index in I
RECURSIVE SumActivated(_, _)
SumActivated(accs, I) ==
    IF I = {} THEN 0
    ELSE LET i == CHOOSE x \in I : TRUE
         IN  accs[i].activatedStake + SumActivated(accs, I \ {i})

totalStake_AllVotes(b) ==
    LET all == b.votes.current \o b.votes.delinquent
    IN  SumActivated(all, 1..Len(all))

totalStake(b) == SumStake(processedNodes(b), Len(b.cluster))

\* versionCounts: keys in insertion order, with their counts
RECURSIVE versionKeys(_, _)
versionKeys(cluster, n) ==
    IF n = 0 THEN <<>>
    ELSE LET ks == versionKeys(cluster, n - 1)
             k == ver(cluster[n])
         IN  IF \E i \in 1..Len(ks) : ks[i] = k THEN ks ELSE Append(ks, k)

versionCounts(cluster) ==
    LET ks == versionKeys(cluster, Len(cluster))
    IN  [i \in 1..Len(ks) |->
            [name |-> ks[i],
             value |-> Cardinality({j \in 1..Len(cluster) : ver(cluster[j]) = ks[i]})]]

\* Array.prototype.sort((a, b) => b.value - a.value): stable, descending
RECURSIVE InsertDesc(_, _)
InsertDesc(sorted, e) ==
    IF sorted = <<>> THEN <<e>>
    ELSE IF Head(sorted).value >= e.value
         THEN <<Head(sorted)>> \o InsertDesc(Tail(sorted), e)
         ELSE <<e>> \o sorted

RECURSIVE SortDesc(_, _)
SortDesc(xs, n) == IF n = 0 THEN <<>> ELSE InsertDesc(SortDesc(xs, n - 1), xs[n])

\* vData
vData_NoSort(cluster) ==
    LET sorted == versionCounts(cluster)
    IN  SubSeq(sorted, 1, Min(6, Len(sorted)))

vData(cluster) ==
    LET sorted == SortDesc(versionCounts(cluster), Len(versionCounts(cluster)))
    IN  SubSeq(sorted, 1, Min(6, Len(sorted)))

\* newInsights
newInsights_Le1000(tps, pn) ==
    LET critNodes == Cardinality({i \in 1..Len(pn) : pn[i].xriScore < 50})
    IN  <<IF RLe(tps, RInt(1000))
          THEN [id |-> 2, type |-> "warning", n |-> RFloor(RAdd(tps, Rat(1, 2)))]
          ELSE [id |-> 2, type |-> "optimization", n |-> 0]>>
        \o (IF critNodes > 0
            THEN <<[id |-> 3, type |-> "critical", n |-> critNodes]>>
            ELSE <<>>)

newInsights(tps, pn) ==
    LET critNodes == Cardinality({i \in 1..Len(pn) : pn[i].xriScore < 50})
    IN  <<IF RLt(tps, RInt(1000))
          THEN [id |-> 2, type |-> "warning", n |-> RFloor(RAdd(tps, Rat(1, 2)))]
          ELSE [id |-> 2, type |-> "optimization", n |-> 0]>>
        \o (IF critNodes > 0
            THEN <<[id |-> 3, type |-> "critical", n |-> critNodes]>>
            ELSE <<>>)

\* ---- the page of CACHE_KEY 'xandeum_v4_intel' (part_001:785-1265)
\* one entry of its processedNodes, before the sort
processedNodeV4(rawNode, votes, production, epochInfo) ==
    LET vote == voteMap(votes, rawNode.pubkey)
        m == calculateRealMetrics(
                 [vote |-> vote, production |-> prod(production, rawNode.pubkey),
                  gossip |-> rawNode.gossip],
                 absoluteSlot(epochInfo))
    IN  [pubkey |-> rawNode.pubkey,
         version |-> rawNode.version,
         gossip |-> rawNode.gossip,
         city |-> <<>>, country |-> <<>>, isp |-> <<>>, lat |-> 0, lng |-> 0,
         stake |-> IF vote # <<>> THEN vote[1].activatedStake ELSE 0,
         voteLag |-> m.lag,
         skipRate |-> m.skip,
         efficiency |-> m.efficiency,
         xriScore |-> m.xri,
         commission |-> IF vote # <<>> THEN vote[1].commission ELSE 0]

\* Array.prototype.sort((a, b) => b.stake - a.stake): stable, descending
RECURSIVE InsertByStake(_, _)
InsertByStake(sorted, e) ==
    IF sorted = <<>> THEN <<e>>
    ELSE IF Head(sorted).stake >= e.stake
         THEN <<Head(sorted)>> \o InsertByStake(Tail(sorted), e)
         ELSE <<e>> \o sorted

RECURSIVE SortByStake(_, _)
SortByStake(xs, n) == IF n = 0 THEN <<>> ELSE InsertByStake(SortByStake(xs, n - 1), xs[n])

processedNodesV4(b) ==
    SortByStake([i \in 1..Len(b.cluster) |->
                    processedNodeV4(b.cluster[i], b.votes, b.production, b.epochInfo)],
                Len(b.cluster))

\* its newInsights
newInsightsV4_AnyStake(tps, pn) ==
    LET lowXRI == Cardinality({i \in 1..Len(pn) : pn[i].xriScore < 50})
    IN  (IF lowXRI > 0
         THEN <<[id |-> 1, type |-> "critical", n |-> lowXRI]>>
         ELSE <<>>)
        \o <<IF RLt(tps, RInt(1000))
             THEN [id |-> 2, type |-> "warning", n |-> RFloor(RAdd(tps, Rat(1, 2)))]
             ELSE [id |-> 2, type |-> "optimization", n |-> 0]>>

newInsightsV4(tps, pn) ==
    LET lowXRI == Cardinality({i \in 1..Len(pn) :
                      pn[i].xriScore < 50 /\ pn[i].stake > 0})
    IN  (IF lowXRI > 0
         THEN <<[id |-> 1, type |-> "critical", n |-> lowXRI]>>
         ELSE <<>>)
        \o <<IF RLt(tps, RInt(1000))
             THEN [id |-> 2, type |-> "warning", n |-> RFloor(RAdd(tps, Rat(1, 2)))]
             ELSE [id |-> 2, type |-> "optimization", n |-> 0]>>

\* ---- dashboard v2: initSystem (part_002:150-300)
\* activatedStake of the vote accounts fetched by initSystem
StakeValues == {0, 1, 2000, 4000}

\* the RPC responses of one batch of initSystem: validator i has stake
\* stakes[i] and is delinquent when it has none; the observer is a cluster
\* node without a vote account
SystemBatch(stakes, observer, epoch, productionOk) ==
    LET n == Len(stakes)
        voteOf(i, d) ==
            IF (stakes[i] = 0) = d
            THEN <<[nodePubkey |-> Pubkeys[i],
                    lastVote |-> IF d THEN EngineSlot - StaleLag ELSE EngineSlot,
                    activatedStake |-> stakes[i],
                    commission |-> 5]>>
            ELSE <<>>
    IN  [cluster |-> [i \in 1..n |->
                        [pubkey |-> Pubkeys[i], version |-> <<"2.0.1", "src">>,
                         gossip |-> <<"10.0.0.1:8001">>]]
                     \o (IF observer
                         THEN <<[pubkey |-> Pubkeys[MaxPubkeys], version |-> <<>>,
                                 gossip |-> <<>>]>>
                         ELSE <<>>),
         votes |-> [current |-> FlatMap([i \in 1..n |-> voteOf(i, FALSE)], n),
                    delinquent |-> FlatMap([i \in 1..n |-> voteOf(i, TRUE)], n)],
         production |-> IF productionOk
                        THEN <<[byIdentity |->
                                  [i \in 1..n |->
                                     <<[leaderSlots |-> 4, blocksProduced |-> 3]>>]]>>
                        ELSE <<>>,
         epochInfo |-> epoch,
         perfSamples |-> <<>>,
         rejected |-> "none"]

SystemBatches ==
    {SystemBatch(stakes, observer, e, ok) :
        stakes \in UNION {[1..n -> StakeValues] : n \in 0..MaxValidators},
        observer \in BOOLEAN, e \in EpochInfos, ok \in BOOLEAN}

\* validatorsList before its sort: { ...vote, stake: vote.activatedStake }
validatorsList(votes) ==
    LET all == votes.current \o votes.delinquent
    IN  [i \in 1..Len(all) |->
            [nodePubkey |-> all[i].nodePubkey, stake |-> all[i].activatedStake]]

\* calcStake
calcStake(votes) ==
    LET all == votes.current \o votes.delinquent
    IN  SumActivated(all, 1..Len(all))

\* const threshold = calcStake * 0.3333
threshold(stake) == RMul(RInt(stake), Rat(3333, 10000))

\* the for loop over the sorted validatorsList, from entry i on
RECURSIVE nkLoop(_, _, _, _, _)
nkLoop(vals, i, accStake, nkIndex, th) ==
    IF i > Len(vals) THEN nkIndex
    ELSE IF RLe(th, RInt(accStake + vals[i].stake)) THEN nkIndex + 1
    ELSE nkLoop(vals, i + 1, accStake + vals[i].stake, nkIndex + 1, th)

\* nakamoto: nkIndex || 1
nakamoto_NoDefault(votes) ==
    LET vals == SortByStake(validatorsList(votes), Len(validatorsList(votes)))
        nkIndex == nkLoop(vals, 1, 0, 0, threshold(calcStake(votes)))
    IN  nkIndex

nakamoto(votes) ==
    LET vals == SortByStake(validatorsList(votes), Len(validatorsList(votes)))
        nkIndex == nkLoop(vals, 1, 0, 0, threshold(calcStake(votes)))
    IN  IF nkIndex = 0 THEN 1 ELSE nkIndex

\* one entry of baseNodes, before the sort
baseNode(node, votes, production, currentSlotHeight) ==
    LET voteData == voteMap(votes, node.pubkey)
        b == baseNodes([vote |-> voteData, production |-> prod(production, node.pubkey),
                        gossip |-> node.gossip], currentSlotHeight)
    IN  [pubkey |-> node.pubkey,
         gossip |-> node.gossip,
         version |-> node.version,
         isValidator |-> b.isValidator,
         rawStake |-> IF voteData # <<>> THEN voteData[1].activatedStake ELSE 0,
         commission |-> IF voteData # <<>> THEN voteData[1].commission ELSE 0,
         slotLag |-> b.slotLag,
         skipRateNum |-> b.skipRateNum,
         healthScore |-> b.healthScore,
         lat |-> 0, lng |-> 0, city |-> <<>>, country |-> <<>>, isp |-> <<>>]

\* baseNodes.sort((a, b) => b.rawStake - a.rawStake): stable, descending
RECURSIVE InsertByRawStake(_, _)
InsertByRawStake(sorted, e) ==
    IF sorted = <<>> THEN <<e>>
    ELSE IF Head(sorted).rawStake >= e.rawStake
         THEN <<Head(sorted)>> \o InsertByRawStake(Tail(sorted), e)
         ELSE <<e>> \o sorted

RECURSIVE SortByRawStake(_, _)
SortByRawStake(xs, n) ==
    IF n = 0 THEN <<>> ELSE InsertByRawStake(SortByRawStake(xs, n - 1), xs[n])

sortedBaseNodes(b) ==
    SortByRawStake([i \in 1..Len(b.cluster) |->
                       baseNode(b.cluster[i], b.votes, b.production,
                                absoluteSlot(b.epochInfo))],
                   Len(b.cluster))

\* ---- geo enrichment: resolveGeo (part_001:983-1013), processGeo (part_002:251-281)
\* a cache without entries
NoGeo == [a \in {} |-> <<>>]

\* gossip addresses of the clusters whose nodes are looked up
GeoGossips == {<<>>, <<"10.0.0.1:8001">>, <<"8.8.8.8:8001">>, <<"9.9.9.9:8001">>}

\* gossip.split(':')[0]
ip(gossip) ==
    IF gossip = <<>> THEN <<>>
    ELSE <<CASE gossip[1] = "10.0.0.1:8001" -> "10.0.0.1"
             [] gossip[1] = "8.8.8.8:8001" -> "8.8.8.8"
             [] gossip[1] = "9.9.9.9:8001" -> "9.9.9.9">>

\* ip.startsWith('10.') || ip.startsWith('127.')
isLocal(a) == a \in {"10.0.0.1", "127.0.0.1"}

\* the geo record built from a successful answer of ipwho.is
geoInfo(a) ==
    IF a = "8.8.8.8"
    THEN [city |-> <<"Mountain View">>, country |-> <<"United States">>,
          isp |-> <<"Google LLC">>, lat |-> 37, lng |-> 0 - 122]
    ELSE [city |-> <<"Zurich">>, country |-> <<"Switzerland">>,
          isp |-> <<"Quad9">>, lat |-> 47, lng |-> 8]

\* how a lookup can end: data.success, an answer without success, an exception
GeoOutcomes == {"success", "nosuccess", "failed"}

\* the caches that localStorage can hold when the page is mounted
GeoCaches == {NoGeo, [a \in {"8.8.8.8"} |-> geoInfo(a)]}

\* Object.assign(node, geo) / { ...node, ...geo }
withGeo(node, geo) ==
    [node EXCEPT !.city = geo.city, !.country = geo.country, !.isp = geo.isp,
                 !.lat = geo.lat, !.lng = geo.lng]

\* cache[a] = geo
withEntry(cache, a, geo) ==
    [x \in DOMAIN cache \cup {a} |-> IF x = a THEN geo ELSE cache[x]]

\* resolveGeo from entry g.i on, up to its next await or its end. The entries
\* of updatedNodes are the objects of the published array, so that g.updated
\* is also the content of nodes.
RECURSIVE resolveGeo(_)
resolveGeo(g) ==
    IF g.i > Len(g.updated)
    THEN [g EXCEPT !.pc = "done",
                   !.stored = IF g.cacheUpdated THEN g.cache ELSE g.stored]
    ELSE LET a == ip(g.updated[g.i].gossip)
         IN  IF a = <<>> \/ isLocal(a[1])
             THEN resolveGeo([g EXCEPT !.i = @ + 1])
             ELSE IF a[1] \in DOMAIN g.cache
             THEN resolveGeo([g EXCEPT !.updated[g.i] = withGeo(@, g.cache[a[1]]),
                                       !.i = @ + 1])
             ELSE [g EXCEPT !.pc = "lookup"]

\* resolveGeo after the awaits of one lookup
resolveGeoAfter_NoSuccessCheck(g, outcome) ==
    LET a == ip(g.updated[g.i].gossip)[1]
    IN  IF outcome \in {"success", "nosuccess"}
        THEN resolveGeo([g EXCEPT !.cache = withEntry(@, a, geoInfo(a)),
                                  !.updated[g.i] = withGeo(@, geoInfo(a)),
                                  !.cacheUpdated = TRUE,
                                  !.i = @ + 1])
        ELSE resolveGeo([g EXCEPT !.i = @ + 1])

resolveGeoAfter(g, outcome) ==
    LET a == ip(g.updated[g.i].gossip)[1]
    IN  IF outcome = "success"
        THEN resolveGeo([g EXCEPT !.cache = withEntry(@, a, geoInfo(a)),
                                  !.updated[g.i] = withGeo(@, geoInfo(a)),
                                  !.cacheUpdated = TRUE,
                                  !.i = @ + 1])
        ELSE resolveGeo([g EXCEPT !.i = @ + 1])

\* processGeo from entry g.i on, up to its next await or its end;
\* g.published is the array last passed to setAllNodes
RECURSIVE processGeo(_)
processGeo(g) ==
    IF g.i > Len(g.updated)
    THEN [g EXCEPT !.pc = "done",
                   !.stored = IF g.cacheUpdated THEN g.cache ELSE g.stored,
                   !.published = g.updated]
    ELSE LET a == ip(g.updated[g.i].gossip)
         IN  IF a = <<>> \/ isLocal(a[1])
             THEN processGeo([g EXCEPT !.i = @ + 1])
             ELSE IF a[1] \in DOMAIN g.cache
             THEN LET u == [g.updated EXCEPT ![g.i] = withGeo(@, g.cache[a[1]])]
                  IN  processGeo([g EXCEPT !.updated = u,
                                           !.published =
                                               IF (g.i - 1) % 20 = 0 THEN u ELSE @,
                                           !.i = @ + 1])
             ELSE [g EXCEPT !.pc = "lookup"]

\* processGeo after the awaits of one lookup
processGeoAfter_PublishEntry(g, outcome) ==
    LET a == ip(g.updated[g.i].gossip)[1]
        u == [g.updated EXCEPT ![g.i] = withGeo(@, geoInfo(a))]
    IN  IF outcome = "success"
        THEN [processGeo([g EXCEPT !.cache = withEntry(@, a, geoInfo(a)),
                                   !.updated = u,
                                   !.published = IF (g.i - 1) % 5 = 0 THEN u ELSE @,
                                   !.cacheUpdated = TRUE,
                                   !.i = @ + 1])
                EXCEPT !.published = <<u[g.i]>>]
        ELSE processGeo([g EXCEPT !.i = @ + 1])

processGeoAfter(g, outcome) ==
    LET a == ip(g.updated[g.i].gossip)[1]
        u == [g.updated EXCEPT ![g.i] = withGeo(@, geoInfo(a))]
    IN  IF outcome = "success"
        THEN processGeo([g EXCEPT !.cache = withEntry(@, a, geoInfo(a)),
                                  !.updated = u,
                                  !.published = IF (g.i - 1) % 5 = 0 THEN u ELSE @,
                                  !.cacheUpdated = TRUE,
                                  !.i = @ + 1])
        ELSE processGeo([g EXCEPT !.i = @ + 1])

\* addLog: newest first, at most 50 entries
addLog_SliceAfterAppend(prev, msg, type) ==
    SubSeq(prev \o <<[type |-> type, msg |-> msg]>>, 1, Min(MaxLogs, Len(prev) + 1))

addLog(prev, msg, type) ==
    SubSeq(<<[type |-> type, msg |-> msg]>> \o prev, 1, Min(MaxLogs, Len(prev) + 1))


\* ---------------------------------------------------------------- state
VARIABLES
    call,           \* the pure function under call
    sample,         \* its node argument
    slotArg,        \* its currentSlot argument
    xriArg,         \* the argument of getBadgeStatus
    callPc,         \* "call" before the function has run, "done" after
    mRet,           \* value returned by calculateRealMetrics
    badgeRet,       \* value returned by getBadgeStatus
    baseRet,        \* entry computed by the merge loop of initSystem
    processingRef,  \* processingRef.current
    pending,        \* the Promise.all of initEngine is outstanding
    nodes,          \* useState nodes
    metrics,        \* useState metrics
    versionData,    \* useState versionData
    insights,       \* useState insights
    logs,           \* useState logs
    ticks,          \* firings of the slot interval so far
    fetched,        \* the settled result of the Promise.all, once it has settled
    lastCall,       \* how the latest invocation left the guard: "started" or "skipped"
    fetches,        \* number of Promise.all issued so far
    allNodes,       \* useState allNodes of dashboard v2
    page,           \* the page that is mounted: "v9.1", "v4" or "v2"
    geoPc,          \* resolveGeo / processGeo: "idle", "lookup" (awaiting), "done"
    geoI,           \* its loop index i, counted from 1
    updatedNodes,   \* its local array updatedNodes
    cachedGeo,      \* its local cache object (cachedGeo / cache)
    cacheUpdated,   \* its flag cacheUpdated / needsCacheUpdate
    geoStored,      \* localStorage[CACHE_KEY], parsed
    geoOutcome,     \* how the latest lookup has ended
    watchedPubkeys, \* useState watchedPubkeys
    watchStored,    \* localStorage['xandeum_watched_nodes'], absent or a JSON text
    watchPc,        \* "mount" before the load effect has run, "ready" after
    lastToggled,    \* the pubkey of the latest toggleWatch call, if any
    watchBefore,    \* watchedPubkeys before the latest toggleWatch call
    toggles,        \* number of toggleWatch calls so far
    logCalls,       \* number of addLog calls so far
    logFollowed,    \* how many of them were steps of the behaviour
    store,          \* table node_snapshots, in insertion order
    snapshots,      \* requests to /api/record-snapshot so far
    snapshotRes,    \* the response to the latest of them, if any
    networkStats,   \* table network_stats, in insertion order
    statsRes,       \* the response to the latest network_stats recording request
    recordFailed,   \* the call that failed during the latest recording request
    historyRes,     \* the latest response of /api/get-history, if any
    historySeen,    \* fetchHistory has handled that response
    polls,          \* requests to /api/get-history so far
    dbHistory       \* useState dbHistory

callVars == <<call, sample, slotArg, xriArg, callPc, mRet, badgeRet, baseRet>>
engineVars == <<processingRef, pending, nodes, metrics, versionData, insights, logs, ticks,
                fetched, lastCall, fetches, allNodes>>
geoVars == <<geoPc, geoI, updatedNodes, cachedGeo, cacheUpdated, geoStored, geoOutcome>>
watchVars == <<watchedPubkeys, watchStored, watchPc, lastToggled, watchBefore, toggles>>
logVars == <<logCalls, logFollowed>>
recordVars == <<store, snapshots, snapshotRes, networkStats, statsRes, recordFailed>>
historyVars == <<historyRes, historySeen, polls, dbHistory>>
sideVars == <<watchVars, logVars, recordVars, historyVars>>
auxVars == <<page, geoVars, sideVars>>
vars == <<call, sample, slotArg, xriArg, callPc, mRet, badgeRet, baseRet,
          processingRef, pending, nodes, metrics, versionData, insights, logs, ticks,
          fetched, lastCall, fetches, allNodes, auxVars>>

\* resolveGeo / processGeo has not been called
InitGeoIdle ==
    /\ geoPc = "idle"
    /\ geoI = 0
    /\ updatedNodes = <<>>
    /\ cachedGeo = NoGeo
    /\ cacheUpdated = FALSE
    /\ geoOutcome = "none"

NoSample == [vote |-> <<>>, production |-> <<>>, gossip |-> <<>>]
NoMetrics == [lag |-> 0, skip |-> RInt(0), efficiency |-> RInt(0), xri |-> 0]
NoBase == [slotLag |-> 0, skipRateNum |-> RInt(0), isValidator |-> FALSE, healthScore |-> 0]

\* the component's state after its first render
InitEngineState ==
    /\ processingRef = FALSE
    /\ pending = FALSE
    /\ nodes = <<>>
    /\ metrics = [epoch |-> 0, slot |-> 0, tps |-> RInt(0), activeStake |-> 0]
    /\ versionData = <<>>
    /\ insights = <<>>
    /\ logs = <<>>
    /\ ticks = 0
    /\ fetched = <<>>
    /\ lastCall = "none"
    /\ fetches = 0
    /\ allNodes = <<>>

InitNoCall ==
    /\ call = "none"
    /\ sample = NoSample
    /\ slotArg = 0
    /\ xriArg = 0
    /\ callPc = "done"
    /\ mRet = NoMetrics
    /\ badgeRet = "NONE"
    /\ baseRet = NoBase

\* ------------------------------------------------- the polling engine (Spec)
\* nothing stored, the watch list loaded as empty
InitWatchIdle ==
    /\ watchedPubkeys = <<>>
    /\ watchStored = <<>>
    /\ watchPc = "ready"
    /\ lastToggled = <<>>
    /\ watchBefore = <<>>
    /\ toggles = 0

\* empty tables, no request made
InitRecordIdle ==
    /\ store = <<>>
    /\ snapshots = 0
    /\ snapshotRes = <<>>
    /\ networkStats = <<>>
    /\ statsRes = <<>>
    /\ recordFailed = [route |-> "none", call |-> "none"]

InitHistoryIdle ==
    /\ historyRes = <<>>
    /\ historySeen = FALSE
    /\ polls = 0
    /\ dbHistory = <<>>

InitSide ==
    /\ InitWatchIdle /\ logCalls = 0 /\ logFollowed = 0
    /\ InitRecordIdle /\ InitHistoryIdle

InitAux == InitGeoIdle /\ geoStored = NoGeo /\ InitSide

Init == InitNoCall /\ InitEngineState /\ InitAux /\ page = "v9.1"

\* initEngine up to its await: the single-flight guard
initEngine_NoGuard ==
    /\ fetches < 3
    /\ processingRef' = TRUE
    /\ pending' = TRUE
    /\ fetches' = fetches + 1
    /\ lastCall' = "started"
    /\ UNCHANGED <<nodes, metrics, versionData, insights, logs, ticks, fetched>>
    /\ UNCHANGED <<allNodes, callVars, auxVars>>

initEngine ==
    /\ IF processingRef
       THEN /\ lastCall' = "skipped"
            /\ UNCHANGED <<processingRef, pending, fetches>>
       ELSE /\ processingRef' = TRUE
            /\ pending' = TRUE
            /\ fetches' = fetches + 1
            /\ lastCall' = "started"
    /\ UNCHANGED <<nodes, metrics, versionData, insights, logs, ticks, fetched>>
    /\ UNCHANGED <<allNodes, callVars, auxVars>>

\* initEngine after its await, the Promise.all having resolved with a batch of B
initEngineResolvedFrom(B) ==
    /\ pending
    /\ \E b \in B :
         LET pn == processedNodes(b)
             tps == realTPS(b.perfSamples)
         IN  /\ metrics' = [epoch |-> IF b.epochInfo = <<>> THEN 0
                                      ELSE b.epochInfo[1].epoch,
                            slot |-> absoluteSlot(b.epochInfo),
                            tps |-> tps,
                            activeStake |-> totalStake(b)]
             /\ nodes' = pn
             /\ versionData' = vData(b.cluster)
             /\ insights' = newInsights(tps, pn)
             /\ logs' = addLog(logs, <<"Cluster Sync", Len(pn)>>, "SUCCESS")
             /\ fetched' = <<b>>
    /\ pending' = FALSE
    /\ UNCHANGED <<processingRef, ticks, lastCall, fetches>>
    /\ UNCHANGED <<allNodes, callVars, auxVars>>

initEngineResolved == initEngineResolvedFrom(Batches)

\* initEngine after its await, getClusterNodes or getVoteAccounts having failed
initEngineRejected_NoLog ==
    /\ pending
    /\ \E r \in RejectingCalls : fetched' = <<Rejection(r)>>
    /\ pending' = FALSE
    /\ UNCHANGED <<processingRef, nodes, metrics, versionData, insights, logs, ticks,
                   lastCall, fetches>>
    /\ UNCHANGED <<allNodes, callVars, auxVars>>

initEngineRejected ==
    /\ pending
    /\ \E r \in RejectingCalls : fetched' = <<Rejection(r)>>
    /\ logs' = addLog(logs, <<"Sync Failed", 0>>, "ALERT")
    /\ pending' = FALSE
    /\ UNCHANGED <<processingRef, nodes, metrics, versionData, insights, ticks,
                   lastCall, fetches>>
    /\ UNCHANGED <<allNodes, callVars, auxVars>>

\* setInterval(() => setMetrics(prev => ({...prev, slot: prev.slot + 1})), 400)
slotInterval ==
    /\ processingRef
    /\ ticks < MaxTicks
    /\ ticks' = ticks + 1
    /\ metrics' = [metrics EXCEPT !.slot = @ + 1]
    /\ UNCHANGED <<processingRef, pending, nodes, versionData, insights, logs,
                   fetched, lastCall, fetches>>
    /\ UNCHANGED <<allNodes, callVars, auxVars>>

Next == initEngine \/ initEngineResolved \/ initEngineRejected \/ slotInterval

Spec == Init /\ [][Next]_vars

\* the engine fed with vote accounts beyond those of the cluster nodes
NextStake ==
    \/ initEngine
    \/ initEngineResolvedFrom(StakeBatches)
    \/ initEngineRejected
    \/ slotInterval

SpecStake == Init /\ [][NextStake]_vars

\* the engine fed with clusters of many versions
NextVersions ==
    \/ initEngine
    \/ initEngineResolvedFrom(VersionBatches)
    \/ initEngineRejected
    \/ slotInterval

SpecVersions == Init /\ [][NextVersions]_vars

\* ------------------------------ the engine of the v4 page (SpecV4)
\* initEngine up to its await: the guard, then the connecting entry of the log
initEngineV4 ==
    /\ IF processingRef
       THEN /\ lastCall' = "skipped"
            /\ UNCHANGED <<processingRef, pending, fetches, logs>>
       ELSE /\ processingRef' = TRUE
            /\ logs' = addLog(logs, <<"Connecting", 0>>, "INFO")
            /\ pending' = TRUE
            /\ fetches' = fetches + 1
            /\ lastCall' = "started"
    /\ UNCHANGED <<nodes, metrics, versionData, insights, ticks, fetched>>
    /\ UNCHANGED <<allNodes, callVars, auxVars>>

\* initEngine after its await, the Promise.all having resolved with a batch
\* of B, up to the first await of resolveGeo
initEngineV4ResolvedFrom(B) ==
    /\ pending
    /\ \E b \in B :
         LET pn == processedNodesV4(b)
             tps == realTPS(b.perfSamples)
             g == resolveGeo([updated |-> pn, cache |-> geoStored,
                              cacheUpdated |-> FALSE, stored |-> geoStored,
                              i |-> 1, pc |-> "run"])
         IN  /\ metrics' = [epoch |-> IF b.epochInfo = <<>> THEN 0
                                      ELSE b.epochInfo[1].epoch,
                            slot |-> absoluteSlot(b.epochInfo),
                            tps |-> tps,
                            activeStake |-> SumStake(pn, Len(pn))]
             /\ nodes' = g.updated
             /\ insights' = newInsightsV4(tps, pn)
             /\ logs' = addLog(logs, <<"Live Feed", Len(pn)>>, "SUCCESS")
             /\ fetched' = <<b>>
             /\ updatedNodes' = g.updated
             /\ cachedGeo' = g.cache
             /\ cacheUpdated' = g.cacheUpdated
             /\ geoStored' = g.stored
             /\ geoI' = g.i
             /\ geoPc' = g.pc
    /\ pending' = FALSE
    /\ UNCHANGED geoOutcome
    /\ UNCHANGED <<processingRef, versionData, ticks, lastCall, fetches>>
    /\ UNCHANGED <<allNodes, callVars, page, sideVars>>

initEngineV4Resolved == initEngineV4ResolvedFrom(Batches)

\* resolveGeo after the awaits of one lookup (the timer, fetch, res.json()),
\* up to its next await or its end
resolveGeoSettled ==
    /\ geoPc = "lookup"
    /\ \E outcome \in GeoOutcomes :
         LET g == resolveGeoAfter([updated |-> updatedNodes, cache |-> cachedGeo,
                                   cacheUpdated |-> cacheUpdated, stored |-> geoStored,
                                   i |-> geoI, pc |-> "run"], outcome)
         IN  /\ geoOutcome' = outcome
             /\ nodes' = g.updated
             /\ updatedNodes' = g.updated
             /\ cachedGeo' = g.cache
             /\ cacheUpdated' = g.cacheUpdated
             /\ geoStored' = g.stored
             /\ geoI' = g.i
             /\ geoPc' = g.pc
    /\ UNCHANGED <<processingRef, pending, metrics, versionData, insights, logs, ticks,
                   fetched, lastCall, fetches, allNodes>>
    /\ UNCHANGED <<callVars, page, sideVars>>

\* initEngine after its await, getClusterNodes or getVoteAccounts having failed
initEngineV4Rejected ==
    /\ pending
    /\ \E r \in RejectingCalls : fetched' = <<Rejection(r)>>
    /\ logs' = addLog(logs, <<"RPC Error", 0>>, "ALERT")
    /\ pending' = FALSE
    /\ UNCHANGED <<processingRef, nodes, metrics, versionData, insights, ticks,
                   lastCall, fetches>>
    /\ UNCHANGED <<allNodes, callVars, auxVars>>

\* every gossip address of Batches is in 10.0.0.0/8, which resolveGeo skips:
\* it ends within initEngineV4Resolved and never awaits a lookup
NextV4 == initEngineV4 \/ initEngineV4Resolved \/ initEngineV4Rejected \/ slotInterval

InitV4 == InitNoCall /\ InitEngineState /\ InitAux /\ page = "v4"

SpecV4 == InitV4 /\ [][NextV4]_vars

\* ------------------------------ initSystem of dashboard v2 (SpecSystem)
InitSystem ==
    /\ InitNoCall
    /\ InitAux
    /\ page = "v2"
    /\ processingRef = FALSE
    /\ pending = FALSE
    /\ nodes = <<>>
    /\ metrics = [totalStake |-> 0, nakamoto |-> 0, currentSlot |-> 0, epoch |-> 0]
    /\ versionData = <<>>
    /\ insights = <<>>
    /\ logs = <<>>
    /\ ticks = 0
    /\ fetched = <<>>
    /\ lastCall = "none"
    /\ fetches = 0
    /\ allNodes = <<>>

\* initSystem up to its await: the guard, then the handshake entry of the log
initSystem ==
    /\ IF processingRef
       THEN /\ lastCall' = "skipped"
            /\ UNCHANGED <<processingRef, pending, fetches, logs>>
       ELSE /\ processingRef' = TRUE
            /\ logs' = addLog(logs, <<"Initiating handshake", 0>>, "INFO")
            /\ pending' = TRUE
            /\ fetches' = fetches + 1
            /\ lastCall' = "started"
    /\ UNCHANGED <<nodes, metrics, versionData, insights, ticks, fetched, allNodes>>
    /\ UNCHANGED <<callVars, auxVars>>

\* initSystem after its await, the Promise.all having resolved with a batch
\* of B, up to the first await of processGeo
initSystemResolvedFrom(B) ==
    /\ pending
    /\ \E b \in B :
         LET bn == sortedBaseNodes(b)
             g == processGeo([updated |-> bn, published |-> bn, cache |-> geoStored,
                              cacheUpdated |-> FALSE, stored |-> geoStored,
                              i |-> 1, pc |-> "run"])
         IN  /\ metrics' = [totalStake |-> calcStake(b.votes),
                            nakamoto |-> nakamoto(b.votes),
                            currentSlot |-> absoluteSlot(b.epochInfo),
                            epoch |-> IF b.epochInfo = <<>> THEN 0
                                      ELSE b.epochInfo[1].epoch]
             /\ allNodes' = g.published
             /\ logs' = addLog(logs, <<"Cluster synced", Len(b.cluster)>>, "SUCCESS")
             /\ fetched' = <<b>>
             /\ updatedNodes' = g.updated
             /\ cachedGeo' = g.cache
             /\ cacheUpdated' = g.cacheUpdated
             /\ geoStored' = g.stored
             /\ geoI' = g.i
             /\ geoPc' = g.pc
    /\ pending' = FALSE
    /\ UNCHANGED geoOutcome
    /\ UNCHANGED <<processingRef, nodes, versionData, insights, ticks, lastCall, fetches>>
    /\ UNCHANGED <<callVars, page, sideVars>>

initSystemResolved == initSystemResolvedFrom(SystemBatches)

\* processGeo after the awaits of one lookup (the timer, fetch, res.json()),
\* up to its next await or its end
processGeoSettled ==
    /\ geoPc = "lookup"
    /\ \E outcome \in GeoOutcomes :
         LET g == processGeoAfter([updated |-> updatedNodes, published |-> allNodes,
                                   cache |-> cachedGeo, cacheUpdated |-> cacheUpdated,
                                   stored |-> geoStored, i |-> geoI, pc |-> "run"],
                                  outcome)
         IN  /\ geoOutcome' = outcome
             /\ allNodes' = g.published
             /\ updatedNodes' = g.updated
             /\ cachedGeo' = g.cache
             /\ cacheUpdated' = g.cacheUpdated
             /\ geoStored' = g.stored
             /\ geoI' = g.i
             /\ geoPc' = g.pc
    /\ UNCHANGED <<processingRef, pending, nodes, metrics, versionData, insights, logs,
                   ticks, fetched, lastCall, fetches>>
    /\ UNCHANGED <<callVars, page, sideVars>>

\* initSystem after its await, getClusterNodes or getVoteAccounts having failed
initSystemRejected ==
    /\ pending
    /\ \E r \in RejectingCalls : fetched' = <<Rejection(r)>>
    /\ logs' = addLog(logs, <<"CRITICAL", 0>>, "ERROR")
    /\ pending' = FALSE
    /\ UNCHANGED <<processingRef, nodes, metrics, versionData, insights, ticks,
                   lastCall, fetches, allNodes>>
    /\ UNCHANGED <<callVars, auxVars>>

\* the heartbeat interval: currentSlot + 1 and, when Math.random() > 0.95, a
\* consensus entry in the log
heartbeat ==
    /\ processingRef
    /\ ticks < MaxTicks
    /\ ticks' = ticks + 1
    /\ metrics' = [metrics EXCEPT !.currentSlot = @ + 1]
    /\ \/ logs' = logs
       \/ logs' = addLog(logs, <<"Consensus reached", 0>>, "INFO")
    /\ UNCHANGED <<processingRef, pending, nodes, versionData, insights,
                   fetched, lastCall, fetches, allNodes>>
    /\ UNCHANGED <<callVars, auxVars>>

\* every gossip address of SystemBatches is in 10.0.0.0/8, which processGeo
\* skips: it ends within initSystemResolved and never awaits a lookup
NextSystem == initSystem \/ initSystemResolved \/ initSystemRejected \/ heartbeat

\* ------------------------------ the three pages with geo lookups (SpecPages)
GeoVotes ==
    {<<>>,
     <<[lastVote |-> EngineSlot, activatedStake |-> 2000, commission |-> 5,
        delinquent |-> FALSE]>>}

GeoProfiles ==
    [version : EngineVersions, gossip : GeoGossips, vote : GeoVotes,
     production : {<<>>}]

GeoBatches ==
    {Batch(prof, <<[epoch |-> 7, absoluteSlot |-> EngineSlot]>>, <<>>, TRUE, <<>>) :
        prof \in UNION {[1..n -> GeoProfiles] : n \in 0..MaxNodes}}

InitPages ==
    /\ InitNoCall
    /\ InitGeoIdle
    /\ InitSide
    /\ geoStored \in GeoCaches
    /\ page \in {"v9.1", "v4", "v2"}
    /\ processingRef = FALSE
    /\ pending = FALSE
    /\ nodes = <<>>
    /\ metrics = IF page = "v2"
                 THEN [totalStake |-> 0, nakamoto |-> 0, currentSlot |-> 0, epoch |-> 0]
                 ELSE [epoch |-> 0, slot |-> 0, tps |-> RInt(0), activeStake |-> 0]
    /\ versionData = <<>>
    /\ insights = <<>>
    /\ logs = <<>>
    /\ ticks = 0
    /\ fetched = <<>>
    /\ lastCall = "none"
    /\ fetches = 0
    /\ allNodes = <<>>

NextPages ==
    \/ /\ page = "v9.1"
       /\ \/ initEngine
          \/ initEngineResolvedFrom(GeoBatches)
          \/ initEngineRejected
          \/ slotInterval
    \/ /\ page = "v4"
       /\ \/ initEngineV4
          \/ initEngineV4ResolvedFrom(GeoBatches)
          \/ initEngineV4Rejected
          \/ resolveGeoSettled
          \/ slotInterval
    \/ /\ page = "v2"
       /\ \/ initSystem
          \/ initSystemResolvedFrom(GeoBatches)
          \/ initSystemRejected
          \/ processGeoSettled
          \/ heartbeat

SpecPages == InitPages /\ [][NextPages]_vars

SpecSystem == InitSystem /\ [][NextSystem]_vars

\* the cycle has finished and has published / has been abandoned
Resolved == fetched # <<>> /\ fetched[1].rejected = "none"
Rejected == fetched # <<>> /\ fetched[1].rejected # "none"

\* riskStats (useMemo over nodes)
riskStats_HealthyGt80 ==
    [critical |-> Cardinality({i \in 1..Len(nodes) : nodes[i].xriScore < 50}),
     warning |-> Cardinality({i \in 1..Len(nodes) :
                    nodes[i].xriScore >= 50 /\ nodes[i].xriScore < 80}),
     healthy |-> Cardinality({i \in 1..Len(nodes) : nodes[i].xriScore > 80})]

riskStats ==
    [critical |-> Cardinality({i \in 1..Len(nodes) : nodes[i].xriScore < 50}),
     warning |-> Cardinality({i \in 1..Len(nodes) :
                    nodes[i].xriScore >= 50 /\ nodes[i].xriScore < 80}),
     healthy |-> Cardinality({i \in 1..Len(nodes) : nodes[i].xriScore >= 80})]

\* ------------------------------------------- the watch list (SpecWatch)
MaxWatched == 3       \* pubkeys of the node table that can be toggled
MaxToggles == 4       \* toggleWatch calls

WatchKeys == {Pubkeys[i] : i \in 1..MaxWatched}

\* JSON.stringify of an array of strings, as its tokens
RECURSIVE JSONitems(_)
JSONitems(list) ==
    IF list = <<>> THEN <<>>
    ELSE IF Len(list) = 1 THEN <<list[1]>>
    ELSE <<list[1], <<",", 0>>>> \o JSONitems(Tail(list))

JSONstringify(list) == <<<<"[", 0>>>> \o JSONitems(list) \o <<<<"]", 0>>>>

\* JSON.parse of such a text
JSONparse(text) ==
    LET isString(t) == t[1] = "pubkey"
    IN  SelectSeq(SubSeq(text, 2, Len(text) - 1), isString)

\* prev.includes(pubkey)
includes(prev, pubkey) == \E i \in 1..Len(prev) : prev[i] = pubkey

\* prev.filter(p => p !== pubkey)
filterOut(prev, pubkey) ==
    LET keep(q) == q # pubkey IN SelectSeq(prev, keep)

\* toggleWatch: const newList
newList_KeepOnRemove(prev, pubkey) ==
    IF includes(prev, pubkey) THEN prev ELSE Append(prev, pubkey)

newList(prev, pubkey) ==
    IF includes(prev, pubkey) THEN filterOut(prev, pubkey) ELSE Append(prev, pubkey)

\* duplicate-free lists over the toggled pubkeys
RECURSIVE WatchLists(_)
WatchLists(n) ==
    IF n = 0 THEN {<<>>}
    ELSE WatchLists(n - 1) \cup
         {Append(l, k) : l \in {m \in WatchLists(n - 1) : Len(m) = n - 1},
                         k \in WatchKeys}

DuplicateFree(list) ==
    \A i, j \in 1..Len(list) : list[i] = list[j] => i = j

\* the page is mounted; an earlier session may have stored a watch list
InitWatch ==
    /\ InitNoCall /\ InitEngineState /\ InitGeoIdle /\ geoStored = NoGeo
    /\ page = "v9.1"
    /\ watchedPubkeys = <<>>
    /\ watchStored \in {<<>>} \cup
          {<<JSONstringify(l)>> : l \in {m \in WatchLists(MaxWatched) : DuplicateFree(m)}}
    /\ watchPc = "mount"
    /\ lastToggled = <<>>
    /\ watchBefore = <<>>
    /\ toggles = 0
    /\ logCalls = 0
    /\ logFollowed = 0
    /\ InitRecordIdle /\ InitHistoryIdle

\* the effect that loads the watched nodes
loadWatched ==
    /\ watchPc = "mount"
    /\ watchPc' = "ready"
    /\ watchedPubkeys' = IF watchStored # <<>>
                          THEN JSONparse(watchStored[1])
                          ELSE watchedPubkeys
    /\ UNCHANGED <<watchStored, lastToggled, watchBefore, toggles>>
    /\ UNCHANGED <<callVars, engineVars, page, geoVars, logVars, recordVars, historyVars>>

toggleWatch ==
    /\ watchPc = "ready"
    /\ toggles < MaxToggles
    /\ toggles' = toggles + 1
    /\ \E pubkey \in WatchKeys :
         /\ watchedPubkeys' = newList(watchedPubkeys, pubkey)
         /\ watchStored' = <<JSONstringify(newList(watchedPubkeys, pubkey))>>
         /\ lastToggled' = <<pubkey>>
    /\ watchBefore' = watchedPubkeys
    /\ UNCHANGED watchPc
    /\ UNCHANGED <<callVars, engineVars, page, geoVars, logVars, recordVars, historyVars>>

NextWatch == loadWatched \/ toggleWatch

SpecWatch == InitWatch /\ [][NextWatch]_vars

\* ------------------------------------------- the log buffer (SpecLogs)
MaxEarlier == 51      \* addLog calls before the calls that are followed
MaxLogCalls == 3      \* addLog calls that are followed

LogTypes == {"INFO", "ALERT", "SUCCESS"}

\* the log buffer after n addLog calls, the k-th with message k
RECURSIVE LogBuffer(_)
LogBuffer(n) ==
    IF n = 0 THEN <<>> ELSE addLog(LogBuffer(n - 1), <<"entry", n>>, "INFO")

\* addLog has been called some number of times
InitLogs ==
    /\ InitNoCall /\ InitGeoIdle /\ geoStored = NoGeo /\ InitWatchIdle
    /\ InitRecordIdle /\ InitHistoryIdle
    /\ page = "v9.1"
    /\ processingRef = FALSE
    /\ pending = FALSE
    /\ nodes = <<>>
    /\ metrics = [epoch |-> 0, slot |-> 0, tps |-> RInt(0), activeStake |-> 0]
    /\ versionData = <<>>
    /\ insights = <<>>
    /\ ticks = 0
    /\ fetched = <<>>
    /\ lastCall = "none"
    /\ fetches = 0
    /\ allNodes = <<>>
    /\ logCalls \in 0..MaxEarlier
    /\ logFollowed = 0
    /\ logs = LogBuffer(logCalls)

\* one call of addLog, with the number of the call as its message
addLogCall ==
    /\ logFollowed < MaxLogCalls
    /\ logFollowed' = logFollowed + 1
    /\ logCalls' = logCalls + 1
    /\ \E type \in LogTypes : logs' = addLog(logs, <<"entry", logCalls + 1>>, type)
    /\ UNCHANGED <<processingRef, pending, nodes, metrics, versionData, insights,
                   ticks, fetched, lastCall, fetches, allNodes>>
    /\ UNCHANGED <<callVars, page, geoVars, watchVars, recordVars, historyVars>>

NextLogs == addLogCall

SpecLogs == InitLogs /\ [][NextLogs]_vars

\* ------------------------------------ the recording routes (SpecRecord)
MaxSnapshots == 3     \* requests to /api/record-snapshot
MaxStats == 1         \* rows of network_stats
SnapshotSlot == 1000  \* absoluteSlot reported to the recording routes
SnapshotLimit == 100  \* rows one snapshot inserts at most

\* cluster sizes: below, and above, what one snapshot inserts
SnapshotSizes == {2, SnapshotLimit + 1}

\* the cluster the recording route fetches: every second node has a vote
\* account, every third no gossip address, the vote lags run from 0 to 600
gossipNode(k) ==
    [pubkey |-> <<"pubkey", k>>,
     gossip |-> IF k % 3 = 0 THEN <<>> ELSE <<"10.0.0.1:8001">>]

snapshotVote(k) ==
    IF k % 2 = 0 THEN <<>>
    ELSE <<[activatedStake |-> k * 10000000,
            lastVote |-> SnapshotSlot - 150 * (k % 5)]>>

\* record-snapshot: one element of snapshots, before the insert
snapshotRow(k, currentSlotHeight) ==
    LET node == gossipNode(k)
        voteData == snapshotVote(k)
        sLag == IF voteData # <<>> /\ currentSlotHeight > 0
               THEN Max(0, currentSlotHeight - voteData[1].lastVote)
               ELSE 0
        h0 == 100
        h1 == IF sLag > 100 THEN h0 - 10 ELSE h0
        h2 == IF sLag > 500 THEN h1 - 30 ELSE h1
        h3 == IF voteData = <<>> THEN 85 ELSE h2
        h4 == IF node.gossip = <<>> THEN h3 - 50 ELSE h3
    IN  [pubkey |-> node.pubkey,
         stake |-> IF voteData # <<>> THEN voteData[1].activatedStake ELSE 0,
         health_score |-> Max(0, Min(100, h4)),
         slot_lag |-> sLag,
         is_validator |-> voteData # <<>>]

\* snapshots.sort((a, b) => b.stake - a.stake): the stable descending order,
\* every element at the place given by the number of elements that precede it
sortedByStake(xs) ==
    LET before(j, i) ==
            xs[j].stake > xs[i].stake \/ (xs[j].stake = xs[i].stake /\ j < i)
        place == [i \in 1..Len(xs) |->
                    Cardinality({j \in 1..Len(xs) : before(j, i)}) + 1]
    IN  [p \in 1..Len(xs) |-> xs[CHOOSE i \in 1..Len(xs) : place[i] = p]]

\* record-snapshot: significantNodes
significantNodes(n, currentSlotHeight) ==
    LET snaps == [k \in 1..n |-> snapshotRow(k, currentSlotHeight)]
    IN  SubSeq(sortedByStake(snaps), 1, Min(SnapshotLimit, n))

\* the rows as the table holds them, created_at filled in by the store
stored(rows, at) ==
    [i \in 1..Len(rows) |->
        [pubkey |-> rows[i].pubkey, stake |-> rows[i].stake,
         health_score |-> rows[i].health_score, slot_lag |-> rows[i].slot_lag,
         is_validator |-> rows[i].is_validator, created_at |-> at]]

SnapshotFailures ==
    {"none", "getClusterNodes", "getVoteAccounts", "getEpochInfo", "insert"}

\* significantNodes for every cluster and every slot height the route can see
significantRows ==
    [n \in SnapshotSizes, h \in {0, SnapshotSlot} |-> significantNodes(n, h)]

\* record-snapshot: does the request reach its catch block
snapshotThrows_IgnoreInsertError(failure) ==
    failure \in {"getClusterNodes", "getVoteAccounts"}

snapshotThrows(failure) ==
    failure \in {"getClusterNodes", "getVoteAccounts", "insert"}

\* GET /api/record-snapshot, with the failures the RPC node and the store can
\* answer with
recordSnapshotWith(failures) ==
    /\ snapshots < MaxSnapshots
    /\ snapshots' = snapshots + 1
    /\ \E n \in SnapshotSizes, failure \in failures :
         LET currentSlotHeight == IF failure = "getEpochInfo" THEN 0 ELSE SnapshotSlot
             rows == significantRows[n, currentSlotHeight]
             inserted == failure \notin {"getClusterNodes", "getVoteAccounts", "insert"}
         IN  /\ recordFailed' = [route |-> "record-snapshot", call |-> failure]
             /\ store' = IF inserted THEN store \o stored(rows, snapshots + 1) ELSE store
             /\ snapshotRes' =
                   IF snapshotThrows(failure)
                   THEN <<[status |-> 500, success |-> FALSE, count |-> 0,
                           error |-> failure]>>
                   ELSE <<[status |-> 200, success |-> TRUE, count |-> Len(rows),
                           error |-> "none"]>>
    /\ UNCHANGED <<networkStats, statsRes>>
    /\ UNCHANGED <<callVars, engineVars, page, geoVars, watchVars, logVars, historyVars>>

recordSnapshot == recordSnapshotWith(SnapshotFailures)

\* what the network_stats route fetches
StatsPerf == {<<>>, <<[numTransactions |-> 2000, samplePeriodSecs |-> 2]>>}

StatsVotes ==
    {[current |-> <<>>, delinquent |-> <<>>],
     [current |-> <<1500000000>>, delinquent |-> <<500000000>>]}

StatsFailures ==
    {"none", "getEpochInfo", "getVoteAccounts", "getRecentPerformanceSamples", "insert"}

RECURSIVE reduceStake(_)
reduceStake(stakes) ==
    IF stakes = <<>> THEN 0 ELSE Head(stakes) + reduceStake(Tail(stakes))

\* network_stats route: const tps
statsTps(perfSamples) ==
    IF perfSamples # <<>> /\ perfSamples[1].numTransactions # 0
    THEN Rat(perfSamples[1].numTransactions, perfSamples[1].samplePeriodSecs)
    ELSE RInt(0)

\* network_stats route: the row it inserts
statsRow(voteAccounts, perfSamples, epoch, time) ==
    [time |-> time,
     stake |-> Rat(reduceStake(voteAccounts.current)
                   + reduceStake(voteAccounts.delinquent), 1000000000),
     tps |-> statsTps(perfSamples),
     node_count |-> Len(voteAccounts.current),
     epoch |-> epoch]

\* GET of the network_stats route
recordStats ==
    /\ Len(networkStats) < MaxStats
    /\ \E voteAccounts \in StatsVotes, perfSamples \in StatsPerf,
          failure \in StatsFailures :
         LET row == statsRow(voteAccounts, perfSamples, 7, Len(networkStats) + 1)
         IN  /\ recordFailed' = [route |-> "network_stats", call |-> failure]
             /\ networkStats' = IF failure = "none"
                                 THEN Append(networkStats, row)
                                 ELSE networkStats
             /\ statsRes' =
                   IF failure = "none"
                   THEN <<[status |-> 200, success |-> TRUE, saved_data |-> <<row>>,
                           error |-> "none"]>>
                   ELSE <<[status |-> 500, success |-> FALSE, saved_data |-> <<>>,
                           error |-> failure]>>
    /\ UNCHANGED <<store, snapshots, snapshotRes>>
    /\ UNCHANGED <<callVars, engineVars, page, geoVars, watchVars, logVars, historyVars>>

InitRecord ==
    /\ InitNoCall /\ InitEngineState /\ InitGeoIdle /\ geoStored = NoGeo
    /\ InitSide
    /\ page = "v9.1"

NextRecord == recordSnapshot \/ recordStats

SpecRecord == InitRecord /\ [][NextRecord]_vars

\* ------------------------------ the history series (SpecHistory, SpecFormat)
MaxPolls == 1         \* requests to /api/get-history
MaxRows == 3          \* rows of a response handed to the formatter alone
MaxAt == 3            \* latest created_at among those rows
HistoryLimit == 200   \* .limit(200)

Reverse(seq) == [i \in 1..Len(seq) |-> seq[Len(seq) + 1 - i]]

\* rows with equal created_at come back in an order the store does not fix
TieOrders == {"insertion", "reverse"}

\* .order('created_at', { ascending: true }): the rows of the earliest
\* created_at first, then those of the next one
RECURSIVE orderFrom(_, _, _)
orderFrom(rows, times, tie) ==
    IF times = {} THEN <<>>
    ELSE LET t == CHOOSE u \in times : \A v \in times : u <= v
             sameTime(r) == r.created_at = t
             bucket == SelectSeq(rows, sameTime)
         IN  (IF tie = "reverse" THEN Reverse(bucket) ELSE bucket)
             \o orderFrom(rows, times \ {t}, tie)

ascending(rows, tie) ==
    orderFrom(rows, {rows[i].created_at : i \in 1..Len(rows)}, tie)

\* created_at counts hours; toLocaleTimeString with hour and minute keeps the
\* time of day and drops the date
toLocaleTimeString(at) == <<at % 24, 0>>

\* (stake / 1000000000).toFixed(0), as the number its text denotes
toFixed0(stake) == (stake + 500000000) \div 1000000000

\* get-history: chartData; from is not part of the response, it names the
\* row the entry was made from
chartData(data) ==
    [i \in 1..Len(data) |->
        [time |-> toLocaleTimeString(data[i].created_at),
         stake |-> toFixed0(data[i].stake),
         health |-> data[i].health_score,
         from |-> [created_at |-> data[i].created_at, pubkey |-> data[i].pubkey]]]

\* GET /api/get-history
getHistory ==
    /\ polls < MaxPolls
    /\ historyRes = <<>> \/ historySeen
    /\ polls' = polls + 1
    /\ historySeen' = FALSE
    /\ \E failed \in BOOLEAN, tie \in TieOrders :
         LET ordered == ascending(store, tie)
             data == SubSeq(ordered, 1, Min(HistoryLimit, Len(ordered)))
         IN  historyRes' =
               IF failed
               THEN <<[status |-> 500, array |-> FALSE, data |-> <<>>]>>
               ELSE <<[status |-> 200, array |-> TRUE, data |-> chartData(data)]>>
    /\ UNCHANGED dbHistory
    /\ UNCHANGED <<callVars, engineVars, page, geoVars, watchVars, logVars, recordVars>>

\* new Date(d.time) of a text that holds hour and minute only: the parse is
\* left to the engine, which rejects it or reads it as a time of today
DateParses == {"invalid", "today"}

InvalidDate == <<-1, -1>>

\* fetchHistory: const formatted
formatted_InOrder(data, parse) ==
    [i \in 1..Len(data) |->
        [data[i] EXCEPT !.time = IF parse = "invalid" THEN InvalidDate ELSE @]]

formatted(data, parse) ==
    Reverse([i \in 1..Len(data) |->
                [data[i] EXCEPT !.time = IF parse = "invalid" THEN InvalidDate ELSE @]])

\* the response is one fetchHistory stores a series from
Usable(res) == res.status \in 200..299 /\ res.array /\ Len(res.data) > 0

\* fetchHistory, from the response on
fetchHistory ==
    /\ historyRes # <<>>
    /\ ~historySeen
    /\ historySeen' = TRUE
    /\ \E parse \in DateParses :
         dbHistory' = IF Usable(historyRes[1])
                      THEN formatted(historyRes[1].data, parse)
                      ELSE dbHistory
    /\ UNCHANGED <<historyRes, polls>>
    /\ UNCHANGED <<callVars, engineVars, page, geoVars, watchVars, logVars, recordVars>>

InitHistory == InitRecord

NextHistory == recordSnapshotWith({"none", "insert"}) \/ getHistory \/ fetchHistory

SpecHistory == InitHistory /\ [][NextHistory]_vars

\* responses handed to the formatter alone: rows in any order of created_at
FormatRows ==
    UNION {[1..n -> 1..MaxAt] : n \in 0..MaxRows}

formatInput(ats) ==
    [i \in 1..Len(ats) |->
        [time |-> toLocaleTimeString(ats[i]),
         stake |-> i,
         health |-> 100 - ats[i],
         from |-> [created_at |-> ats[i], pubkey |-> <<"pubkey", i>>]]]

FormatResponses ==
    {[status |-> 200, array |-> TRUE, data |-> formatInput(ats)] : ats \in FormatRows}
    \cup {[status |-> 500, array |-> FALSE, data |-> <<>>],
          [status |-> 200, array |-> FALSE, data |-> <<>>]}

InitFormat ==
    /\ InitNoCall /\ InitEngineState /\ InitGeoIdle /\ geoStored = NoGeo
    /\ InitWatchIdle /\ logCalls = 0 /\ logFollowed = 0
    /\ InitRecordIdle
    /\ page = "v9.1"
    /\ historyRes \in {<<r>> : r \in FormatResponses}
    /\ historySeen = FALSE
    /\ polls = 1
    /\ dbHistory = <<>>

NextFormat == fetchHistory

SpecFormat == InitFormat /\ [][NextFormat]_vars

\* the tier riskStats counts a score in, as the colour of that tier
riskTier(xriScore) ==
    IF xriScore < 50 THEN "red"
    ELSE IF xriScore >= 50 /\ xriScore < 80 THEN "yellow"
    ELSE "green"

\* node grid: detail cards below this many nodes, matrix dots from it on
DetailCardLimit == 100

\* status bar of a detail card
statusBar(xriScore) ==
    IF xriScore > 80 THEN "green" ELSE IF xriScore > 50 THEN "yellow" ELSE "red"

\* matrix dot
matrixDot(xriScore) ==
    IF xriScore >= 80 THEN "green" ELSE IF xriScore >= 50 THEN "yellow" ELSE "red"

\* RiskBadge({ score })
RiskBadge(score) ==
    IF score < 50 THEN "red" ELSE IF score < 80 THEN "yellow" ELSE "green"

\* the colours one node is shown in: in the grid and, in the table, as badge
nodeGrid(node) ==
    IF Len(nodes) < DetailCardLimit
    THEN statusBar(node.xriScore)
    ELSE matrixDot(node.xriScore)

\* ------------------------------------- the pure functions (SpecScore)
InitScore ==
    /\ InitEngineState
    /\ InitAux
    /\ page = "v9.1"
    /\ callPc = "call"
    /\ mRet = NoMetrics
    /\ badgeRet = "NONE"
    /\ baseRet = NoBase
    /\ call \in {"calculateRealMetrics", "baseNodes", "getBadgeStatus", "baseNodesV3"}
    /\ IF call = "getBadgeStatus"
       THEN sample = NoSample /\ slotArg = 0 /\ xriArg \in 0..XriMax
       ELSE sample \in Samples /\ slotArg \in Slots /\ xriArg = 0

CallCalculateRealMetrics ==
    /\ call = "calculateRealMetrics" /\ callPc = "call"
    /\ mRet' = calculateRealMetrics(sample, slotArg)
    /\ callPc' = "done"
    /\ UNCHANGED <<call, sample, slotArg, xriArg, badgeRet, baseRet>>
    /\ UNCHANGED <<engineVars, auxVars>>

CallGetBadgeStatus ==
    /\ call = "getBadgeStatus" /\ callPc = "call"
    /\ badgeRet' = getBadgeStatus(xriArg)
    /\ callPc' = "done"
    /\ UNCHANGED <<call, sample, slotArg, xriArg, mRet, baseRet>>
    /\ UNCHANGED <<engineVars, auxVars>>

CallBaseNodes ==
    /\ call = "baseNodes" /\ callPc = "call"
    /\ baseRet' = baseNodes(sample, slotArg)
    /\ callPc' = "done"
    /\ UNCHANGED <<call, sample, slotArg, xriArg, mRet, badgeRet>>
    /\ UNCHANGED <<engineVars, auxVars>>

\* one run of the merge loop of the ledger dashboard over the node; the
\* polling interval runs it again and again
CallBaseNodesV3 ==
    /\ call = "baseNodesV3"
    /\ \E random \in RandomDraws : baseRet' = baseNodesV3(sample, slotArg, random)
    /\ callPc' = "done"
    /\ UNCHANGED <<call, sample, slotArg, xriArg, mRet, badgeRet>>
    /\ UNCHANGED <<engineVars, auxVars>>

NextScore ==
    CallCalculateRealMetrics \/ CallGetBadgeStatus \/ CallBaseNodes \/ CallBaseNodesV3

SpecScore == InitScore /\ [][NextScore]_vars

MetricsDone == call = "calculateRealMetrics" /\ callPc = "done"
BaseDone == call = "baseNodes" /\ callPc = "done"
BadgeDone == call = "getBadgeStatus" /\ callPc = "done"


\* ------------------------------------------------------------- properties

\* C1: for every input, the xri returned by calculateRealMetrics is an
\* integer with 0 <= xri <= 100.
C1_XriBounded == MetricsDone => mRet.xri \in 0..100

\* a call on a malformed production record and a lag above 200: the score
\* before clamping is outside [0, 100] on either side
C1_Witness ==
    /\ MetricsDone
    /\ \/ /\ RLt(xriRaw(sample, mRet.skip, mRet.lag), RInt(0))
          /\ mRet.lag > 200
          /\ mRet.xri = 0
       \/ /\ RLt(RInt(100), xriRaw(sample, mRet.skip, mRet.lag))
          /\ mRet.xri = 100

\* the reference value of the specification: clamp to [0, 100], then floor
RefXri(skipRate, voteLag, hasGossipAddress) ==
    LET raw == RSub(RSub(RSub(RInt(100), RMul(Rat(3, 2), skipRate)),
                         RMul(Rat(1, 2), RInt(voteLag))),
                    IF hasGossipAddress THEN RInt(0) ELSE RInt(20))
        clamped == RMax(RInt(0), RMin(RInt(100), raw))
    IN  RFloor(clamped)

\* C2: the xri returned by calculateRealMetrics (floor, then clamp) equals
\* floor(clamp(100 - 1.5*skipRate - 0.5*voteLag - (20 without gossip), 0, 100)).
C2_FloorThenClamp ==
    MetricsDone => mRet.xri = RefXri(mRet.skip, mRet.lag, sample.gossip # <<>>)

\* a call whose unclamped score is a negative non-integer: the floor is below
\* the clamp bound the reference applies first
C2_Witness ==
    /\ MetricsDone
    /\ LET x == xriRaw(sample, mRet.skip, mRet.lag)
       IN  x.d # 1 /\ x.n < 0 /\ RFloor(x) < 0
    /\ mRet.xri = 0

\* C3: the vote lag is max(0, currentSlot - lastVote) when the node has a vote
\* record and currentSlot > 0, and 0 otherwise; it is never negative.
C3_VoteLag ==
    MetricsDone =>
        /\ mRet.lag >= 0
        /\ mRet.lag =
             IF Len(sample.vote) = 1 /\ slotArg > 0
             THEN (IF sample.vote[1].lastVote < slotArg
                   THEN slotArg - sample.vote[1].lastVote
                   ELSE 0)
             ELSE 0

\* a call whose vote is ahead of the current slot
C3_Witness ==
    /\ MetricsDone
    /\ sample.vote # <<>>
    /\ slotArg > 0
    /\ sample.vote[1].lastVote > slotArg
    /\ mRet.lag = 0

\* C4: the skip rate returned by calculateRealMetrics lies in [0, 100] for
\* every input, also for a production record with blocksProduced > leaderSlots.
C4_SkipInRange ==
    MetricsDone => RLe(RInt(0), mRet.skip) /\ RLe(mRet.skip, RInt(100))

\* C5: raising the skip rate or the vote lag of a sample, its other fields
\* held fixed, never raises the xri returned by calculateRealMetrics.
C5_XriMonotone ==
    MetricsDone =>
        /\ \A p2 \in Productions :
             LET r2 == calculateRealMetrics([sample EXCEPT !.production = p2], slotArg)
             IN  RLe(mRet.skip, r2.skip) => r2.xri <= mRet.xri
        /\ \A v2 \in Votes, c2 \in Slots :
             LET r2 == calculateRealMetrics([sample EXCEPT !.vote = v2], c2)
             IN  mRet.lag <= r2.lag => r2.xri <= mRet.xri

\* a call with a positive skip rate and a positive lag whose score is strictly
\* inside (0, 100), so that both a lower and a higher score exist
C5_Witness ==
    /\ MetricsDone
    /\ RLt(RInt(0), mRet.skip)
    /\ mRet.lag > 0
    /\ mRet.xri > 0 /\ mRet.xri < 100
    /\ \E v2 \in Votes :
         LET r2 == calculateRealMetrics([sample EXCEPT !.vote = v2], slotArg)
         IN  r2.lag > mRet.lag /\ r2.xri < mRet.xri

\* C6: two samples that differ only in gossip presence differ in xri by
\* exactly 20 whenever the unclamped score of the one without gossip is not
\* below 0, and by less than 20 only when the clamp at 0 applies.
C6_GossipPenalty ==
    MetricsDone =>
        LET with == calculateRealMetrics([sample EXCEPT !.gossip = <<"10.0.0.1:8001">>], slotArg)
            without == calculateRealMetrics([sample EXCEPT !.gossip = <<>>], slotArg)
            rawWithout == xriRaw([sample EXCEPT !.gossip = <<>>], mRet.skip, mRet.lag)
        IN  /\ RLe(RInt(0), rawWithout) => with.xri - without.xri = 20
            /\ with.xri - without.xri < 20 => RLt(rawWithout, RInt(0))

\* the skip rate of the specification: from the production record alone
RefSkipRate(production) ==
    IF production # <<>> /\ production[1].leaderSlots > 0
    THEN Rat(100 * (production[1].leaderSlots - production[1].blocksProduced),
             production[1].leaderSlots)
    ELSE RInt(0)

\* C7 as stated: the skip rate that feeds a node's score is
\* 100*(leaderSlots - blocksProduced)/leaderSlots with a production record
\* with leaderSlots > 0 and 0 otherwise, in calculateRealMetrics and in the
\* merge loop that feeds calculateHealthScore.
C7_SkipRateEverywhere ==
    /\ MetricsDone => mRet.skip = RefSkipRate(sample.production)
    /\ BaseDone => baseRet.skipRateNum = RefSkipRate(sample.production)

\* C7 as amended: that holds in calculateRealMetrics; in the merge loop of
\* initSystem a node without a usable production record gets 0 only if it has
\* no vote record, and min(100, slotLag / 50) if it has one.
C7_SkipRateAmended ==
    /\ MetricsDone => mRet.skip = RefSkipRate(sample.production)
    /\ BaseDone =>
         baseRet.skipRateNum =
           IF sample.production # <<>> /\ sample.production[1].leaderSlots > 0
           THEN RefSkipRate(sample.production)
           ELSE IF sample.vote = <<>> THEN RInt(0)
           ELSE IF baseRet.slotLag >= 5000 THEN RInt(100)
           ELSE Rat(baseRet.slotLag, 50)

\* a merged node with a vote record and no usable production record whose
\* skip rate is the lag-based estimate
C7_Witness ==
    /\ BaseDone
    /\ sample.vote # <<>>
    /\ (sample.production = <<>> \/ sample.production[1].leaderSlots = 0)
    /\ baseRet.slotLag > 0
    /\ RLt(RInt(0), baseRet.skipRateNum)

\* C8: the efficiency is 100*blocksProduced/leaderSlots with a production
\* record with leaderSlots > 0; otherwise 100 if the vote lag is below 5 and
\* 50 if it is 5 or more.
C8_Efficiency ==
    MetricsDone =>
        mRet.efficiency =
          IF sample.production # <<>> /\ sample.production[1].leaderSlots > 0
          THEN Rat(100 * sample.production[1].blocksProduced,
                   sample.production[1].leaderSlots)
          ELSE IF mRet.lag >= 5 THEN RInt(50) ELSE RInt(100)

\* a call without a usable production record at the lag boundary 5
C8_Witness ==
    /\ MetricsDone
    /\ (sample.production = <<>> \/ sample.production[1].leaderSlots = 0)
    /\ mRet.lag = 5
    /\ mRet.efficiency = RInt(50)

\* C9: for every integer i in 0..100, getBadgeStatus(i) is GOLD iff i >= 90,
\* SILVER iff 75 <= i < 90, BRONZE iff 50 <= i < 75 and NONE iff i < 50.
C9_BadgeTiers ==
    BadgeDone =>
        /\ badgeRet \in {"GOLD", "SILVER", "BRONZE", "NONE"}
        /\ (badgeRet = "GOLD") <=> (xriArg >= 90)
        /\ (badgeRet = "SILVER") <=> (xriArg >= 75 /\ xriArg < 90)
        /\ (badgeRet = "BRONZE") <=> (xriArg >= 50 /\ xriArg < 75)
        /\ (badgeRet = "NONE") <=> (xriArg < 50)

\* a call at the lower boundary of the silver tier
C9_Witness == BadgeDone /\ xriArg = 75 /\ badgeRet = "SILVER"

\* C10: riskStats partitions the published node list: every node is counted
\* in exactly one of critical, warning and healthy, and the three counts add
\* up to the number of nodes.
C10_RiskPartition ==
    /\ riskStats.critical + riskStats.warning + riskStats.healthy = Len(nodes)
    /\ \A i \in 1..Len(nodes) :
         Cardinality({t \in {"critical", "warning", "healthy"} :
            \/ t = "critical" /\ nodes[i].xriScore < 50
            \/ t = "warning" /\ nodes[i].xriScore >= 50 /\ nodes[i].xriScore < 80
            \/ t = "healthy" /\ nodes[i].xriScore >= 80}) = 1

\* a published list with a node exactly at the healthy boundary 80 and a
\* critical node
C10_Witness ==
    /\ Len(nodes) >= 2
    /\ \E i \in 1..Len(nodes) : nodes[i].xriScore = 80
    /\ riskStats.critical >= 1
    /\ riskStats.healthy >= 1

\* ---------------------------------------------------------------------------
\* C11: every published node carries the badge that getBadgeStatus gives for
\* its own xriScore; a critical node (xriScore < 50) has badge NONE or
\* BRONZE, a healthy node (xriScore >= 80) has badge SILVER or GOLD.
C11_BadgeConsistent ==
    \A i \in 1..Len(nodes) :
        /\ nodes[i].badge = getBadgeStatus(nodes[i].xriScore)
        /\ nodes[i].xriScore < 50 => nodes[i].badge \in {"NONE", "BRONZE"}
        /\ nodes[i].xriScore >= 80 => nodes[i].badge \in {"SILVER", "GOLD"}

\* a published list with a critical node and a healthy node, each with a badge
\* of its tier
C11_Witness ==
    /\ Resolved
    /\ \E i \in 1..Len(nodes) : nodes[i].xriScore < 50 /\ nodes[i].badge = "NONE"
    /\ \E i \in 1..Len(nodes) : nodes[i].xriScore >= 80 /\ nodes[i].badge = "SILVER"

\* C16: a finished cycle publishes exactly one throughput insight, a warning
\* when the measured TPS is below 1000 and an optimization otherwise; the
\* insight list is replaced, so it never holds more than two entries.
C16_ThroughputInsight ==
    /\ Len(insights) <= 2
    /\ Resolved =>
         /\ Cardinality({i \in 1..Len(insights) :
                insights[i].type \in {"warning", "optimization"}}) = 1
         /\ \A i \in 1..Len(insights) :
                /\ insights[i].type = "warning" => RLt(metrics.tps, RInt(1000))
                /\ insights[i].type = "optimization" => ~RLt(metrics.tps, RInt(1000))
    /\ ~Resolved => insights = <<>>

\* a cycle that measured exactly 1000 TPS and published the optimization
\* insight together with a critical one
C16_Witness ==
    /\ Resolved
    /\ metrics.tps = RInt(1000)
    /\ Len(insights) = 2
    /\ insights[1].type = "optimization"

\* C18: at most one cycle is in flight: while the Promise.all of a cycle is
\* outstanding no further fetch is issued, and an invocation made meanwhile
\* returns at the guard without changing nodes, metrics, insights or logs.
C18_SingleFlight ==
    [][pending =>
        /\ fetches' = fetches
        /\ lastCall' # lastCall =>
              /\ lastCall' = "skipped"
              /\ UNCHANGED <<nodes, metrics, versionData, insights, logs, pending>>]_vars

\* an invocation has returned at the guard while the first cycle is in flight
C18_Witness == pending /\ lastCall = "skipped" /\ fetches = 1 /\ logs = <<>>

\* C19: once a cycle has finished, with a success or with a failure, the
\* guard is released, so that a later invocation starts a new cycle.
C19_GuardReleased == fetched # <<>> /\ ~pending => ~processingRef

\* C20: when any of the five chain-data calls fails, the cycle is abandoned:
\* nodes, metrics, versionData and insights keep their prior values and
\* exactly one alert entry is added to the log.
FailedCall(b) ==
    b.rejected # "none" \/ b.production = <<>> \/ b.epochInfo = <<>>

C20_AnyFailureAbandons ==
    [][fetched = <<>> /\ fetched' # <<>> /\ FailedCall(fetched'[1]) =>
        /\ UNCHANGED <<nodes, metrics, versionData, insights>>
        /\ logs' = addLog(logs, logs'[1].msg, "ALERT")]_vars

\* C20 amended: when getClusterNodes or getVoteAccounts fails, the cycle is
\* abandoned: nodes, metrics, versionData and insights keep their prior
\* values and exactly one alert entry is added to the log. A failure of
\* getBlockProduction or getEpochInfo is replaced by null, and the cycle
\* publishes with a success entry in the log.
C20_RejectionAbandons ==
    [][fetched = <<>> /\ fetched' # <<>> =>
        IF fetched'[1].rejected # "none"
        THEN /\ UNCHANGED <<nodes, metrics, versionData, insights>>
             /\ Len(logs') = Len(logs) + 1
             /\ logs' = addLog(logs, logs'[1].msg, "ALERT")
        ELSE /\ nodes' = processedNodes(fetched'[1])
             /\ Len(logs') = Len(logs) + 1
             /\ logs'[1].type = "SUCCESS"]_vars

\* a cycle abandoned after the slot interval has fired: one alert in the log,
\* nothing published
C20_Witness ==
    /\ Rejected
    /\ ticks > 0
    /\ Len(logs) = 1 /\ logs[1].type = "ALERT"
    /\ nodes = <<>> /\ insights = <<>> /\ versionData = <<>>

\* C14: metrics.activeStake set by initEngine is the sum of activatedStake
\* over every vote account of the current and delinquent sets.
C14_AllVoteAccounts ==
    Resolved =>
        LET all == fetched[1].votes.current \o fetched[1].votes.delinquent
        IN  metrics.activeStake = SumActivated(all, 1..Len(all))

\* C14 amended: metrics.activeStake set by initEngine is the sum of the stake
\* of the published nodes, that is the sum of activatedStake over the vote
\* accounts whose nodePubkey is the pubkey of a cluster node, the last
\* account counting when several carry the same nodePubkey; a vote account
\* of a validator absent from the cluster list is not counted.
C14_MatchedVoteAccounts ==
    Resolved =>
        LET all == fetched[1].votes.current \o fetched[1].votes.delinquent
            cluster == fetched[1].cluster
            matched == {i \in 1..Len(all) :
                          /\ \E j \in 1..Len(cluster) :
                                cluster[j].pubkey = all[i].nodePubkey
                          /\ \A k \in 1..Len(all) :
                                k > i => all[k].nodePubkey # all[i].nodePubkey}
        IN  /\ metrics.activeStake = SumActivated(all, matched)
            /\ metrics.activeStake = SumStake(nodes, Len(nodes))

\* a cycle whose vote accounts include one of an unlisted validator: the
\* published stake is positive and below the sum over all vote accounts
C14_Witness ==
    /\ Resolved
    /\ LET all == fetched[1].votes.current \o fetched[1].votes.delinquent
       IN  /\ \E i \in 1..Len(all) : all[i].nodePubkey = Pubkeys[MaxPubkeys]
           /\ metrics.activeStake > 0
           /\ metrics.activeStake < SumActivated(all, 1..Len(all))

\* C15: versionData has at most 6 entries with non-increasing counts; each
\* entry's value is the number of cluster nodes whose version key (the
\* version up to its first space, or 'Unknown') is the entry's name; no
\* omitted version has a higher count than an included one.
VersionKeySet(cluster) == {ver(cluster[j]) : j \in 1..Len(cluster)}

VersionCount(cluster, k) == Cardinality({j \in 1..Len(cluster) : ver(cluster[j]) = k})

C15_VersionData ==
    Resolved =>
        LET cluster == fetched[1].cluster
            included == {versionData[i].name : i \in 1..Len(versionData)}
        IN  /\ Len(versionData) <= 6
            /\ Len(versionData) = Min(6, Cardinality(VersionKeySet(cluster)))
            /\ Cardinality(included) = Len(versionData)
            /\ \A i, j \in 1..Len(versionData) :
                  i < j => versionData[i].value >= versionData[j].value
            /\ \A i \in 1..Len(versionData) :
                  /\ versionData[i].name \in VersionKeySet(cluster)
                  /\ versionData[i].value = VersionCount(cluster, versionData[i].name)
            /\ \A k \in VersionKeySet(cluster) \ included :
                  \A i \in 1..Len(versionData) :
                      VersionCount(cluster, k) <= versionData[i].value

\* a cluster with seven version keys, 'Unknown' among them: six are
\* published, the first with two nodes, and a key with one node is left out
C15_Witness ==
    /\ Resolved
    /\ Cardinality(VersionKeySet(fetched[1].cluster)) = 7
    /\ "Unknown" \in VersionKeySet(fetched[1].cluster)
    /\ Len(versionData) = 6
    /\ versionData[1].value = 2
    /\ versionData[6].value = 1

\* C17: a critical insight is published exactly when at least one published
\* node has xriScore < 50, and the count it reports is riskStats.critical.
CriticalInsights == {i \in 1..Len(insights) : insights[i].type = "critical"}

C17_CriticalInsight ==
    Resolved =>
        /\ (CriticalInsights # {}) <=> (riskStats.critical > 0)
        /\ \A i \in CriticalInsights : insights[i].n = riskStats.critical

\* C17 amended, for the initEngine of the v4 page: a critical insight is
\* published exactly when at least one published node has xriScore < 50 and
\* a positive stake, and it reports the number of those nodes, which is at
\* most riskStats.critical.
C17_StakedCriticalInsight ==
    Resolved =>
        LET staked == {i \in 1..Len(nodes) :
                          nodes[i].xriScore < 50 /\ nodes[i].stake > 0}
        IN  /\ Cardinality(CriticalInsights) <= 1
            /\ (CriticalInsights # {}) <=> (staked # {})
            /\ \A i \in CriticalInsights :
                  /\ insights[i].n = Cardinality(staked)
                  /\ insights[i].n <= riskStats.critical

\* a cycle that published a critical node with stake and one without: the
\* insight reports one node, riskStats two
C17_Witness ==
    /\ Resolved
    /\ riskStats.critical = 2
    /\ \E i \in CriticalInsights : insights[i].n = 1

\* C12: for a non-empty validator list with a positive total stake, the
\* Nakamoto measure published by initSystem is the smallest k such that the k
\* largest stakes sum to at least one third of the total stake.
StakeOf(S) ==
    LET all == fetched[1].votes.current \o fetched[1].votes.delinquent
    IN  SumActivated(all, S)

ReachesOneThird(k) ==
    LET all == fetched[1].votes.current \o fetched[1].votes.delinquent
    IN  \E S \in SUBSET (1..Len(all)) :
            Cardinality(S) = k /\ 3 * StakeOf(S) >= StakeOf(1..Len(all))

C12_NakamotoOneThird ==
    LET all == fetched[1].votes.current \o fetched[1].votes.delinquent
    IN  (Resolved /\ Len(all) > 0 /\ StakeOf(1..Len(all)) > 0) =>
            /\ ReachesOneThird(metrics.nakamoto)
            /\ \A k \in 1..(metrics.nakamoto - 1) : ~ReachesOneThird(k)

\* C13: for an empty validator list, and for one whose stakes are all 0, the
\* cycle of initSystem completes and publishes the Nakamoto measure 1.
C13_NakamotoDegenerate ==
    LET all == fetched[1].votes.current \o fetched[1].votes.delinquent
    IN  (Resolved /\ (Len(all) = 0 \/ StakeOf(1..Len(all)) = 0)) =>
            /\ metrics.nakamoto = 1
            /\ metrics.totalStake = 0
            /\ \E i \in 1..Len(logs) : logs[i].type = "SUCCESS"
            /\ \A i \in 1..Len(logs) : logs[i].type # "ERROR"

\* a cycle over two validators without stake has published the measure 1
C13_Witness ==
    /\ Resolved
    /\ Len(fetched[1].votes.delinquent) = 2
    /\ fetched[1].votes.current = <<>>
    /\ metrics.nakamoto = 1
    /\ Len(allNodes) >= 2

\* C21: in every reachable state, the intermediate states of the geo
\* enrichment included, the published node list is empty or holds exactly one
\* scored entry for each cluster node of the one fetched batch, in the order
\* fixed at scoring time.
PublishedList == IF page = "v2" THEN allNodes ELSE nodes

Scored(b) ==
    CASE page = "v9.1" -> processedNodes(b)
      [] page = "v4" -> processedNodesV4(b)
      [] page = "v2" -> sortedBaseNodes(b)

NoGeoFields(n) ==
    IF page = "v9.1" THEN n
    ELSE [n EXCEPT !.city = <<>>, !.country = <<>>, !.isp = <<>>, !.lat = 0, !.lng = 0]

C21_WholeBatch ==
    \/ PublishedList = <<>>
    \/ /\ Resolved
       /\ Len(PublishedList) = Len(fetched[1].cluster)
       /\ \A i \in 1..Len(PublishedList) :
             NoGeoFields(PublishedList[i]) = Scored(fetched[1])[i]
       /\ \A j \in 1..Len(fetched[1].cluster) :
             Cardinality({i \in 1..Len(PublishedList) :
                 PublishedList[i].pubkey = fetched[1].cluster[j].pubkey}) = 1

\* a lookup is awaited while the list published so far holds two entries, the
\* first of them enriched
C21_Witness ==
    /\ Resolved
    /\ geoPc = "lookup"
    /\ Len(PublishedList) = 2
    /\ PublishedList[1].city # <<>>
    /\ PublishedList[2].city = <<>>

\* C25: geo enrichment changes only the geo fields of a node: after any
\* sequence of lookups, cache hits and lookup failures every node keeps the
\* lag, skip rate, efficiency, score and stake scored by the cycle, and a node
\* whose lookup failed or returned no success keeps its geo fields unset.
GeoUnset(n) ==
    n.city = <<>> /\ n.country = <<>> /\ n.isp = <<>> /\ n.lat = 0 /\ n.lng = 0

ScoreKept(n, s) ==
    IF page = "v2"
    THEN /\ n.slotLag = s.slotLag /\ n.skipRateNum = s.skipRateNum
         /\ n.healthScore = s.healthScore /\ n.rawStake = s.rawStake
    ELSE /\ n.voteLag = s.voteLag /\ n.skipRate = s.skipRate
         /\ n.efficiency = s.efficiency /\ n.xriScore = s.xriScore
         /\ n.stake = s.stake

GeoFrame ==
    (Resolved /\ page # "v9.1") =>
        /\ Len(updatedNodes) = Len(PublishedList)
        /\ \A i \in 1..Len(PublishedList) :
              /\ ScoreKept(PublishedList[i], Scored(fetched[1])[i])
              /\ ScoreKept(updatedNodes[i], Scored(fetched[1])[i])
              /\ PublishedList[i].pubkey = Scored(fetched[1])[i].pubkey
              /\ ~GeoUnset(PublishedList[i]) => ~GeoUnset(updatedNodes[i])
              /\ ~GeoUnset(updatedNodes[i]) =>
                    /\ ip(updatedNodes[i].gossip) # <<>>
                    /\ ip(updatedNodes[i].gossip)[1] \in DOMAIN cachedGeo

C25_GeoFrame ==
    /\ []GeoFrame
    /\ [][(geoPc = "lookup" /\ geoI' > geoI /\ geoOutcome' # "success") =>
             /\ GeoUnset(updatedNodes[geoI])
             /\ updatedNodes'[geoI] = updatedNodes[geoI]
             /\ PublishedList'[geoI] = PublishedList[geoI]
             /\ GeoUnset(PublishedList'[geoI])
             /\ cachedGeo' = cachedGeo]_vars

\* the enrichment has ended after a failed lookup and a successful one: the
\* node of the failed lookup has no geo fields, the other one has
C25_Witness ==
    /\ Resolved
    /\ geoPc = "done"
    /\ Len(PublishedList) = 2
    /\ GeoUnset(PublishedList[1])
    /\ ip(PublishedList[1].gossip) = <<"9.9.9.9">>
    /\ PublishedList[2].city = <<"Mountain View">>
    /\ page = "v4"

\* C22: scoring is deterministic and per-node independent: a node with the
\* same vote record, production record, gossip presence and current slot gets
\* the same vote lag, skip rate and score however often it is scored, by
\* calculateRealMetrics and by the merge loop that feeds calculateHealthScore.
C22_Deterministic ==
    [][callPc = "done" => mRet' = mRet /\ baseRet' = baseRet]_vars

\* C28: every display of a node's risk level agrees with the tier riskStats
\* counts the node in: green iff xriScore >= 80, yellow iff 50 <= xriScore < 80,
\* red iff xriScore < 50, in the node grid (detail cards or matrix dots) and
\* in RiskBadge.
C28_DisplaysAgree ==
    \A i \in 1..Len(nodes) :
        /\ nodeGrid(nodes[i]) = riskTier(nodes[i].xriScore)
        /\ RiskBadge(nodes[i].xriScore) = riskTier(nodes[i].xriScore)
        /\ matrixDot(nodes[i].xriScore) = riskTier(nodes[i].xriScore)

\* C29: after any sequence of toggleWatch calls, starting from a
\* duplicate-free watch list, the watch list has no duplicate pubkey, the value
\* stored under 'xandeum_watched_nodes' is the current watch list, and
\* toggling the same pubkey twice in a row restores the membership of every
\* pubkey.
Members(list) == {list[i] : i \in 1..Len(list)}

C29_WatchList ==
    /\ [](/\ DuplicateFree(watchedPubkeys)
          /\ lastToggled # <<>> =>
                /\ watchStored = <<JSONstringify(watchedPubkeys)>>
                /\ JSONparse(watchStored[1]) = watchedPubkeys)
    /\ [][(toggles' = toggles + 1 /\ lastToggled' = lastToggled) =>
                Members(watchedPubkeys') = Members(watchBefore)]_vars

\* a pubkey was removed from a loaded list of three and put back: it is now
\* the last entry, and the stored text lists the same three pubkeys
C29_Witness ==
    /\ toggles = 2
    /\ lastToggled = <<Pubkeys[1]>>
    /\ watchBefore = <<Pubkeys[2], Pubkeys[3]>>
    /\ watchedPubkeys = <<Pubkeys[2], Pubkeys[3], Pubkeys[1]>>
    /\ JSONparse(watchStored[1]) = watchedPubkeys

\* C30: after any sequence of addLog calls the log buffer holds at most 50
\* entries, newest first: each call puts its entry at the head, keeps the
\* relative order of the older entries and drops only the oldest entries
\* beyond 50.
C30_LogBuffer ==
    /\ [](/\ Len(logs) <= 50
          /\ \A i, j \in 1..Len(logs) : i < j => logs[i].msg[2] > logs[j].msg[2])
    /\ [][logCalls' = logCalls + 1 =>
            /\ logs'[1].msg = <<"entry", logCalls'>>
            /\ Len(logs') = IF Len(logs) < 50 THEN Len(logs) + 1 ELSE 50
            /\ \A i \in 2..Len(logs') : logs'[i] = logs[i - 1]]_vars

\* the buffer is full and has dropped its three oldest entries
C30_Witness ==
    /\ logCalls = 53
    /\ Len(logs) = 50
    /\ logs[1].msg = <<"entry", 53>>
    /\ logs[50].msg = <<"entry", 4>>

\* C26: a snapshot-recording request answers success: true only if the
\* insert into the store succeeded; if any fetch or the insert fails, it
\* answers with status 500, success: false and the error message.
LatestRecordRes ==
    IF recordFailed.route = "record-snapshot" THEN snapshotRes[1] ELSE statsRes[1]

Answers500(res, message) ==
    res.status = 500 /\ ~res.success /\ res.error = message

InsertedLatest ==
    IF recordFailed.route = "record-snapshot"
    THEN /\ Len(store) >= snapshotRes[1].count
         /\ \A i \in (Len(store) - snapshotRes[1].count + 1)..Len(store) :
               store[i].created_at = snapshots
    ELSE /\ networkStats # <<>>
         /\ statsRes[1].saved_data = <<networkStats[Len(networkStats)]>>

C26_AnyFailureIs500 ==
    recordFailed.route # "none" =>
        /\ LatestRecordRes.success => recordFailed.call # "insert" /\ InsertedLatest
        /\ recordFailed.call # "none" => Answers500(LatestRecordRes, recordFailed.call)

\* C26 amended: success: true is answered only if the insert succeeded. The
\* network_stats route answers 500 with success: false and the error message
\* if any of its three fetches or the insert fails; the record-snapshot route
\* does so if getClusterNodes, getVoteAccounts or the insert fails, while a
\* failed getEpochInfo is replaced by null: the snapshot is then recorded with
\* slot lag 0 for every node and the answer is success: true.
C26_FailureIs500 ==
    recordFailed.route # "none" =>
        /\ LatestRecordRes.success => recordFailed.call # "insert" /\ InsertedLatest
        /\ LatestRecordRes.success <=> LatestRecordRes.status = 200
        /\ (recordFailed.call # "none"
              /\ ~(recordFailed.route = "record-snapshot"
                    /\ recordFailed.call = "getEpochInfo")) =>
                Answers500(LatestRecordRes, recordFailed.call)
        /\ (recordFailed.route = "record-snapshot"
              /\ recordFailed.call = "getEpochInfo") =>
                /\ LatestRecordRes.success
                /\ \A i \in (Len(store) - snapshotRes[1].count + 1)..Len(store) :
                      store[i].slot_lag = 0

\* a snapshot of 101 nodes was recorded although getEpochInfo had failed, and
\* a later request failed at the insert
C26_Witness ==
    /\ recordFailed = [route |-> "record-snapshot", call |-> "insert"]
    /\ Answers500(snapshotRes[1], "insert")
    /\ Len(store) = SnapshotLimit
    /\ store[1].slot_lag = 0 /\ store[1].stake > 0
    /\ snapshots = 2

\* C23: composing GET /api/get-history with the formatter of fetchHistory,
\* the series in dbHistory is in chronological order, oldest snapshot first,
\* for every content of the snapshot store.
C23_Chronological ==
    \A i, j \in 1..Len(dbHistory) :
        i < j => dbHistory[i].from.created_at <= dbHistory[j].from.created_at

\* C24: for every input of n rows, rows with out-of-order timestamps
\* included, the formatter of fetchHistory outputs n entries, entry i made
\* from input row n-1-i, so reversing the output gives the input order back;
\* a response that is not a non-empty array leaves dbHistory as it was.
C24_ExactReversal ==
    historySeen =>
        LET data == historyRes[1].data
            n == Len(data)
        IN  IF Usable(historyRes[1])
            THEN /\ Len(dbHistory) = n
                 /\ \A i \in 1..n :
                       /\ dbHistory[i].from = data[n + 1 - i].from
                       /\ dbHistory[i].stake = data[n + 1 - i].stake
                       /\ dbHistory[i].health = data[n + 1 - i].health
                       /\ dbHistory[i].time \in {data[n + 1 - i].time, InvalidDate}
                 /\ [i \in 1..n |-> Reverse(dbHistory)[i].from] =
                    [i \in 1..n |-> data[i].from]
            ELSE dbHistory = <<>>

\* three rows with created_at 1, 3, 2 came out as 2, 3, 1
C24_Witness ==
    /\ historySeen
    /\ Len(dbHistory) = 3
    /\ [i \in 1..3 |-> historyRes[1].data[i].from.created_at] = <<1, 3, 2>>
    /\ [i \in 1..3 |-> dbHistory[i].from.created_at] = <<2, 3, 1>>
    /\ dbHistory[1].from.pubkey = <<"pubkey", 3>>

\* C27: GET /api/get-history returns the most recent rows: when the store
\* holds more than 200 rows, it returns the 200 with the latest created_at,
\* and no returned row is older than a row that was left out.
C27_LatestRows ==
    [][(polls' = polls + 1 /\ historyRes'[1].status = 200) =>
        LET ret == historyRes'[1].data
            returned == {ret[i].from : i \in 1..Len(ret)}
            leftOut == {q \in 1..Len(store) :
                          [created_at |-> store[q].created_at,
                           pubkey |-> store[q].pubkey] \notin returned}
        IN  /\ Len(ret) = Min(HistoryLimit, Len(store))
            /\ \A q \in leftOut : \A r \in returned :
                  store[q].created_at <= r.created_at]_vars

====
